---- MODULE Spec2Model ----
(***************************************************************************)
(* auto-click-system: the preview crop planner (auto_click_core.py) and    *)
(* the two YAML -> pyautogui script generators (generate_pyautogui.py,     *)
(* tools/generate_pyautogui_script.py).                                    *)
(***************************************************************************)
EXTENDS Integers, Sequences, FiniteSets, TLC

VARIABLES click_x, click_y, screen_w, screen_h, size, dx, dy, plan, op

\* the parsed flow.yaml, the arguments and result of the generator call, the
\* output target, and the run of the emitted script
VARIABLES flow_yaml, req, result, written, rpc, rstatus, box, performed, cur_screen

planVars == <<click_x, click_y, screen_w, screen_h, size, dx, dy, plan, op>>

genVars == <<flow_yaml, req, result, written>>

runVars == <<rpc, rstatus, box, performed, cur_screen>>

\* the editor window (auto_click_editor.py): the document being edited and
\* the recording state of AutoClickEditor
VARIABLES data, project_dir, current_flow_id, recording, paused, expect_anchor_click,
          pending_action, self_anchor_click_xy, _last_move_xy

edVars == <<data, project_dir, current_flow_id, recording, paused, expect_anchor_click,
            pending_action, self_anchor_click_xy, _last_move_xy>>

\* the simple click recorder (tools/simple_click_recorder.py): the flags and
\* the log file of main(), the two listener callbacks and the main thread
VARIABLES rec_paused, rec_stopped, f_lines, f_closed, mouse_cb, kb_cb, listening, main_pc

recVars == <<rec_paused, rec_stopped, f_lines, f_closed, mouse_cb, kb_cb, listening, main_pc>>

vars == <<planVars, genVars, runVars, edVars, recVars>>

(***************************************************************************)
(* Bounds of the planner's inputs.                                         *)
(***************************************************************************)
MaxSize == 4
MaxBound == 5
MaxNeg == 2
MaxShift == 1

\* longest steps list of a flow
MaxSteps == 2

MaxFlowIds == 2

Sizes == -1..MaxSize
Bounds == 0..MaxBound
Coords == (0 - MaxNeg)..MaxBound
Shifts == (0 - MaxShift)..MaxShift

(***************************************************************************)
(* auto_click_core.py                                                      *)
(***************************************************************************)
max(a, b) == IF a >= b THEN a ELSE b

min(a, b) == IF a <= b THEN a ELSE b

\* mutant: the upper bound of the clamp is dropped
clamp_no_upper(v, lo, hi) == max(lo, v)

clamp(v, lo, hi) == max(lo, min(hi, v))

\* mutant: size = 0 is let through
valid_args_zero_size(sz, w, h) == ~(sz < 0) /\ ~(w <= 0 \/ h <= 0)

\* the two argument checks that raise ValueError
valid_args(sz, w, h) == ~(sz <= 0) /\ ~(w <= 0 \/ h <= 0)

\* mutant: half rounded up
half_of_ceil(sz) == (sz + 1) \div 2

\* half = size // 2
half_of(sz) == sz \div 2

\* mutant: sign of left0 lost
pad_lo_sign(lo0) == max(0, lo0)

\* pad_left / pad_top = max(0, -left0)
pad_lo(lo0) == max(0, 0 - lo0)

\* mutant: right/bottom treated as inclusive
pad_hi_inclusive(hi0, bound) == max(0, hi0 - bound + 1)

\* pad_right / pad_bottom = max(0, right0 - screen_w)
pad_hi(hi0, bound) == max(0, hi0 - bound)

\* "Ensure non-empty crop": if right <= left: right = min(screen_w, left + 1)
nonempty_hi(lo, hi, bound) == IF hi <= lo THEN min(bound, lo + 1) ELSE hi

preview_crop_plan(cx_in, cy_in, w, h, sz, ddx, ddy) ==
    IF ~valid_args(sz, w, h) THEN [status |-> "ValueError"]
    ELSE
      LET cx == cx_in + ddx
          cy == cy_in + ddy
          half == half_of(sz)
          left0 == cx - half
          top0 == cy - half
          right0 == left0 + sz
          bottom0 == top0 + sz
          left == clamp(left0, 0, w)
          top == clamp(top0, 0, h)
          right == clamp(right0, 0, w)
          bottom == clamp(bottom0, 0, h)
      IN [status |-> "ok",
          size |-> sz,
          left |-> left,
          top |-> top,
          right |-> nonempty_hi(left, right, w),
          bottom |-> nonempty_hi(top, bottom, h),
          pad_left |-> pad_lo(left0),
          pad_top |-> pad_lo(top0),
          pad_right |-> pad_hi(right0, w),
          pad_bottom |-> pad_hi(bottom0, h)]

crop_w(p) == p.right - p.left

crop_h(p) == p.bottom - p.top

(***************************************************************************)
(* Parsed YAML values (what yaml.safe_load returns) as <<type, value>>, and *)
(* the Python conversions the generators apply to them.  Seconds are kept  *)
(* in hundredths, so int() of a float truncates and float() of an int does *)
(* not.                                                                    *)
(***************************************************************************)
Null == <<"null", 0>>

B(b) == <<"bool", b>>

I(n) == <<"int", n>>

F(h) == <<"float", h>>

S(str) == <<"str", str>>

L(seq) == <<"list", seq>>

M(rec) == <<"map", rec>>

EmptyMap == <<"map", <<>>>>

\* isinstance(v, dict) / list / str
IsDict(v) == v[1] = "map"

IsList(v) == v[1] = "list"

IsStr(v) == v[1] = "str"

\* key in d
Has(d, k) == k \in DOMAIN d[2]

\* d.get(k)
Get(d, k) == IF Has(d, k) THEN d[2][k] ELSE Null

\* bool(v)
Truthy(v) ==
    CASE v[1] = "null" -> FALSE
      [] v[1] = "bool" -> v[2]
      [] v[1] = "int" -> v[2] # 0
      [] v[1] = "float" -> v[2] # 0
      [] v[1] = "str" -> v[2] # ""
      [] v[1] = "list" -> Len(v[2]) # 0
      [] v[1] = "map" -> DOMAIN v[2] # {}

\* a or b
Or(a, b) == IF Truthy(a) THEN a ELSE b

\* the decimal strings int() and float() accept, among the strings of the model
DigitStrings == [s \in {"0", "1", "2", "3"} |->
                    CASE s = "0" -> 0 [] s = "1" -> 1 [] s = "2" -> 2 [] s = "3" -> 3]

Fail == [ok |-> FALSE, v |-> 0]

Ok(n) == [ok |-> TRUE, v |-> n]

\* int(v): truncation towards zero of a float, ValueError/TypeError otherwise
PyInt(v) ==
    CASE v[1] = "int" -> Ok(v[2])
      [] v[1] = "bool" -> Ok(IF v[2] THEN 1 ELSE 0)
      [] v[1] = "float" -> Ok(IF v[2] >= 0 THEN v[2] \div 100 ELSE 0 - ((0 - v[2]) \div 100))
      [] v[1] = "str" -> IF v[2] \in DOMAIN DigitStrings THEN Ok(DigitStrings[v[2]]) ELSE Fail
      [] OTHER -> Fail

\* float(v), in hundredths
PyFloat(v) ==
    CASE v[1] = "int" -> Ok(100 * v[2])
      [] v[1] = "bool" -> Ok(IF v[2] THEN 100 ELSE 0)
      [] v[1] = "float" -> Ok(v[2])
      [] v[1] = "str" -> IF v[2] \in DOMAIN DigitStrings THEN Ok(100 * DigitStrings[v[2]]) ELSE Fail
      [] OTHER -> Fail

\* str(v) of the values a button can hold
PyStr(v) ==
    CASE v[1] = "str" -> v[2]
      [] v[1] = "null" -> "None"
      [] v[1] = "bool" -> IF v[2] THEN "True" ELSE "False"
      [] OTHER -> "<repr>"


(***************************************************************************)
(* The emitted script: a sequence of statements, each tagged with the      *)
(* index of the step whose compilation emitted it (0 for the prologue).    *)
(***************************************************************************)
\* a raised error: its kind, the step it was raised for (0: before the steps),
\* and the anchor field its message names ("" when it names none)
ErrAt(kind, idx, field) == [status |-> "error", kind |-> kind, step |-> idx, field |-> field]

Err(kind, idx) == ErrAt(kind, idx, "")

Emit(stmts) == [status |-> "ok", stmts |-> stmts]

Comment(idx, text) == [op |-> "comment", step |-> idx, text |-> text]

ClickStmt(idx, ox, oy, clicks, button, interval) ==
    [op |-> "click", step |-> idx, ox |-> ox, oy |-> oy, clicks |-> clicks,
     button |-> button, interval |-> interval]

WriteStmt(idx, text, interval) ==
    [op |-> "write", step |-> idx, text |-> text, interval |-> interval]

HotkeyStmt(idx, keys) == [op |-> "hotkey", step |-> idx, keys |-> keys]

\* time.sleep(secs); role tells the wait step's own sleep from a post-step delay
SleepStmt(idx, secs, role) == [op |-> "sleep", step |-> idx, secs |-> secs, role |-> role]

LocateStmt(image, cix, ciy) == [op |-> "locate", step |-> 0, image |-> image, cix |-> cix, ciy |-> ciy]

(***************************************************************************)
(* generate_pyautogui.py                                                   *)
(***************************************************************************)
\* mutant: the last flow with the id wins
first_match_last(flows, flow_id, i) ==
    LET m == {j \in i..Len(flows) : IsDict(flows[j]) /\ Get(flows[j], "id") = S(flow_id)} IN
    IF m = {} THEN 0 ELSE CHOOSE j \in m : \A k \in m : k <= j

\* "for f in flows: if isinstance(f, dict) and f.get('id') == flow_id: return f":
\* the index of the flow returned, searching from i on; 0 when there is none
RECURSIVE first_match(_, _, _)
first_match(flows, flow_id, i) ==
    IF i > Len(flows) THEN 0
    ELSE IF IsDict(flows[i]) /\ Get(flows[i], "id") = S(flow_id) THEN i
    ELSE first_match(flows, flow_id, i + 1)

find_flow(doc, flow_id) ==
    LET flows == Or(Get(doc, "flows"), L(<<>>)) IN
    IF ~IsList(flows) THEN Err("type_error", 0)
    ELSE LET i == first_match(flows[2], flow_id, 1) IN
         IF i = 0 THEN Err("flow_not_found", 0)
         ELSE [status |-> "ok", flow |-> flows[2][i]]

SupportedActions == {S("click"), S("type"), S("hotkey"), S("wait")}

\* the trailing "if delay_val is not None: time.sleep(delay_val)"
gs_delay(idx, delay_s) ==
    IF delay_s = Null THEN <<>> ELSE <<SleepStmt(idx, PyFloat(delay_s).v, "delay")>>

gs_click(st, idx) ==
    IF ~Has(st, "offset") THEN Err("missing_field", idx)
    ELSE LET offset == Get(st, "offset") IN
    IF ~IsDict(offset) THEN Err("type_error", idx)
    ELSE IF ~Has(offset, "x") THEN Err("missing_field", idx)
    ELSE IF ~PyInt(Get(offset, "x")).ok THEN Err("type_error", idx)
    ELSE IF ~Has(offset, "y") THEN Err("missing_field", idx)
    ELSE IF ~PyInt(Get(offset, "y")).ok THEN Err("type_error", idx)
    ELSE LET ox == PyInt(Get(offset, "x")).v
             oy == PyInt(Get(offset, "y")).v
             button == Or(Get(st, "button"), S("left"))
             clicks == PyInt(Or(Get(st, "clicks"), I(1)))
             interval_s == Get(st, "interval_s")
         IN
         IF ~clicks.ok THEN Err("uncaught_exception", idx)
         ELSE IF clicks.v \notin {1, 2} THEN Err("value_error", idx)
         ELSE IF interval_s # Null /\ ~PyFloat(interval_s).ok THEN Err("type_error", idx)
         ELSE Emit(<<Comment(idx, "click"),
                     ClickStmt(idx, ox, oy, clicks.v, PyStr(button),
                               IF interval_s = Null THEN Null ELSE F(PyFloat(interval_s).v))>>)

gs_type(st, idx) ==
    IF ~Has(st, "text") THEN Err("missing_field", idx)
    ELSE LET text == Get(st, "text")
             interval_s == Get(st, "interval_s")
         IN
         IF ~IsStr(text) THEN Err("type_error", idx)
         ELSE IF interval_s = Null THEN Emit(<<Comment(idx, "type"), WriteStmt(idx, text[2], Null)>>)
         ELSE IF ~PyFloat(interval_s).ok THEN Err("type_error", idx)
         ELSE Emit(<<Comment(idx, "type"), WriteStmt(idx, text[2], F(PyFloat(interval_s).v))>>)

gs_hotkey(st, idx) ==
    IF ~Has(st, "keys") THEN Err("missing_field", idx)
    ELSE LET keys == Get(st, "keys") IN
         IF ~IsList(keys) \/ ~(\A k \in DOMAIN keys[2] : IsStr(keys[2][k])) THEN Err("type_error", idx)
         ELSE IF ~Truthy(keys) THEN Err("value_error", idx)
         ELSE Emit(<<Comment(idx, "hotkey"),
                     HotkeyStmt(idx, [k \in DOMAIN keys[2] |-> keys[2][k][2]])>>)

gs_wait(st, idx) ==
    IF ~Has(st, "seconds") THEN Err("missing_field", idx)
    ELSE LET sec == PyFloat(Get(st, "seconds")) IN
         IF ~sec.ok THEN Err("uncaught_exception", idx)
         ELSE Emit(<<Comment(idx, "wait"), SleepStmt(idx, sec.v, "wait")>>)

\* one iteration of the "for idx, st in enumerate(steps, 1)" loop
gs_step(st, idx) ==
    IF ~IsDict(st) THEN Err("type_error", idx)
    ELSE LET action == Get(st, "action")
             delay_s == Get(st, "delay_s")
         IN
         IF action \notin SupportedActions THEN Err("unsupported_action", idx)
         ELSE IF delay_s # Null /\ ~PyFloat(delay_s).ok THEN Err("type_error", idx)
         ELSE LET r == CASE action = S("click") -> gs_click(st, idx)
                         [] action = S("type") -> gs_type(st, idx)
                         [] action = S("hotkey") -> gs_hotkey(st, idx)
                         [] action = S("wait") -> gs_wait(st, idx)
              IN IF r.status = "error" THEN r
                 ELSE Emit(r.stmts \o gs_delay(idx, delay_s))

RECURSIVE gs_steps(_, _, _)
gs_steps(steps, idx, acc) ==
    IF idx > Len(steps) THEN Emit(acc)
    ELSE LET r == gs_step(steps[idx], idx) IN
         IF r.status = "error" THEN r
         ELSE gs_steps(steps, idx + 1, acc \o r.stmts)

\* mutant: the dry run refuses a step whose action cannot be compiled
gs_dry_lines_checked(steps, idx, acc) ==
    IF \E i \in DOMAIN steps : ~IsDict(steps[i]) THEN Err("type_error", idx)
    ELSE IF \E i \in DOMAIN steps : Get(steps[i], "action") \notin SupportedActions
    THEN Err("unsupported_action", idx)
    ELSE Emit([i \in DOMAIN steps |-> Get(steps[i], "action")])

\* the dry-run listing: one line per step, a non-mapping step is an error
RECURSIVE gs_dry_lines(_, _, _)
gs_dry_lines(steps, idx, acc) ==
    IF idx > Len(steps) THEN Emit(acc)
    ELSE IF ~IsDict(steps[idx]) THEN Err("type_error", idx)
    ELSE gs_dry_lines(steps, idx + 1, Append(acc, Get(steps[idx], "action")))

\* the validated anchor of a flow
AnchorOk(image, cix, ciy) == [status |-> "ok", image |-> image, cix |-> cix, ciy |-> ciy]

\* mutant: a flow without a usable anchor gets an empty one
gs_anchor_optional(flow) ==
    IF ~IsDict(Get(flow, "anchor")) THEN AnchorOk(S(""), 0, 0)
    ELSE LET anchor == Get(flow, "anchor")
             click_in_image == Get(anchor, "click_in_image")
         IN AnchorOk(Get(anchor, "image"), PyInt(Get(click_in_image, "x")).v,
                     PyInt(Get(click_in_image, "y")).v)

\* the anchor checks of generate_script, in the order the code makes them
gs_anchor(flow) ==
    IF ~Has(flow, "anchor") THEN ErrAt("missing_field", 0, "anchor")
    ELSE LET anchor == Get(flow, "anchor") IN
    IF ~IsDict(anchor) THEN ErrAt("type_error", 0, "anchor")
    ELSE IF ~Has(anchor, "image") THEN ErrAt("missing_field", 0, "anchor.image")
    ELSE LET anchor_image == Get(anchor, "image") IN
    IF ~IsStr(anchor_image) \/ ~Truthy(anchor_image) THEN ErrAt("type_error", 0, "anchor.image")
    ELSE IF ~Has(anchor, "click_in_image") THEN ErrAt("missing_field", 0, "anchor.click_in_image")
    ELSE LET click_in_image == Get(anchor, "click_in_image") IN
    IF ~IsDict(click_in_image) THEN ErrAt("type_error", 0, "anchor.click_in_image")
    ELSE IF ~Has(click_in_image, "x") THEN ErrAt("missing_field", 0, "anchor.click_in_image.x")
    ELSE IF ~PyInt(Get(click_in_image, "x")).ok THEN ErrAt("type_error", 0, "anchor.click_in_image.x")
    ELSE IF ~Has(click_in_image, "y") THEN ErrAt("missing_field", 0, "anchor.click_in_image.y")
    ELSE IF ~PyInt(Get(click_in_image, "y")).ok THEN ErrAt("type_error", 0, "anchor.click_in_image.y")
    ELSE AnchorOk(anchor_image, PyInt(Get(click_in_image, "x")).v,
                  PyInt(Get(click_in_image, "y")).v)

generate_script(doc, flow_id, use_confidence, dry_run, anchor_exists) ==
    LET found == find_flow(doc, flow_id) IN
    IF found.status = "error" THEN found
    ELSE LET flow == found.flow
             a == gs_anchor(flow)
         IN
    IF a.status = "error" THEN a
    ELSE LET anchor_image == a.image
             cix == a.cix
             ciy == a.ciy
             g == Or(Get(doc, "global"), EmptyMap)
             global_cfg == IF IsDict(g) THEN g ELSE EmptyMap
             confidence == Get(global_cfg, "confidence")
             grayscale == Get(global_cfg, "grayscale")
             steps == Or(Get(flow, "steps"), L(<<>>))
         IN
    IF ~IsList(steps) THEN Err("type_error", 0)
    ELSE IF dry_run THEN
        LET lines == gs_dry_lines(steps[2], 1, <<>>) IN
        IF lines.status = "error" THEN lines
        ELSE [status |-> "dry", flow_id |-> flow_id, image |-> anchor_image[2],
              cix |-> cix, ciy |-> ciy, actions |-> lines.stmts]
    ELSE IF ~anchor_exists THEN Err("anchor_image_not_found", 0)
    ELSE IF use_confidence /\ confidence # Null /\ ~PyFloat(confidence).ok THEN Err("type_error", 0)
    ELSE LET body == gs_steps(steps[2], 1, <<>>) IN
         IF body.status = "error" THEN body
         ELSE [status |-> "ok",
               gen |-> "generate_script",
               confidence |-> IF use_confidence /\ confidence # Null
                              THEN F(PyFloat(confidence).v) ELSE Null,
               grayscale |-> IF grayscale = Null THEN TRUE ELSE Truthy(grayscale),
               body |-> <<[op |-> "anchor_exists", step |-> 0],
                          LocateStmt(anchor_image[2], cix, ciy)>> \o body.stmts]


(***************************************************************************)
(* tools/generate_pyautogui_script.py                                      *)
(***************************************************************************)
\* "x.get(k)" raises AttributeError unless x is a mapping
CanGet(x) == IsDict(x)

\* mutant: an id that no flow has selects the first flow of the document
_get_flow_lenient(doc, flow_id) ==
    LET flows == Get(doc, "flows")
        i == first_match(flows[2], flow_id, 1)
    IN [status |-> "ok", flow |-> flows[2][IF i = 0 THEN 1 ELSE i]]

_get_flow(doc, flow_id) ==
    LET flows == Or(Get(doc, "flows"), L(<<>>)) IN
    IF ~IsList(flows) THEN Err("uncaught_exception", 0)
    ELSE LET i == first_match(flows[2], flow_id, 1) IN
         IF i = 0 THEN Err("flow_not_found", 0)
         ELSE [status |-> "ok", flow |-> flows[2][i]]

\* the click branch of the steps loop
tg_click(st, idx, delay) ==
    LET off == Or(Get(st, "offset"), EmptyMap) IN
    IF ~CanGet(off) THEN Err("uncaught_exception", idx)
    ELSE LET ox == PyInt(Or(Get(off, "x"), I(0)))
             oy == PyInt(Or(Get(off, "y"), I(0)))
             button == Or(Get(st, "button"), S("left"))
             clicks == PyInt(Or(Get(st, "clicks"), I(1)))
         IN
         IF ~ox.ok \/ ~oy.ok \/ ~clicks.ok THEN Err("uncaught_exception", idx)
         ELSE Emit(<<Comment(idx, "step"),
                     ClickStmt(idx, ox.v, oy.v, clicks.v, PyStr(button), F(5)),
                     SleepStmt(idx, 100 * delay, "delay")>>)

tg_type(st, idx, delay) ==
    LET text == Or(Get(st, "text"), S(""))
        interval_s == PyFloat(Or(Get(st, "interval_s"), F(2)))
    IN
    IF ~interval_s.ok THEN Err("uncaught_exception", idx)
    ELSE Emit(<<Comment(idx, "step"),
                WriteStmt(idx, PyStr(text), F(interval_s.v)),
                SleepStmt(idx, 100 * delay, "delay")>>)

\* keys of the documents of the model are lists (or absent)
tg_hotkey(st, idx, delay) ==
    LET keys == Or(Get(st, "keys"), L(<<>>)) IN
    IF ~IsList(keys) THEN Err("uncaught_exception", idx)
    ELSE Emit(<<Comment(idx, "step"),
                HotkeyStmt(idx, [k \in DOMAIN keys[2] |-> PyStr(keys[2][k])]),
                SleepStmt(idx, 100 * delay, "delay")>>)

tg_wait(st, idx) ==
    LET seconds == PyInt(Or(Get(st, "seconds"), I(0))) IN
    IF ~seconds.ok THEN Err("uncaught_exception", idx)
    ELSE Emit(<<Comment(idx, "step"), SleepStmt(idx, 100 * seconds.v, "wait")>>)

\* the else branch: "# Unsupported action ... (skipped)" and a sleep
tg_unsupported(st, idx, delay) ==
    Emit(<<Comment(idx, "step"),
           Comment(idx, "unsupported"),
           SleepStmt(idx, 100 * delay, "delay")>>)

\* one iteration of the "for i, st in enumerate(steps, start=1)" loop
tg_step(st, idx, default_delay_s) ==
    IF ~IsDict(st) THEN Emit(<<>>)
    ELSE LET action == Get(st, "action")
             delay_s == Get(st, "delay_s")
             delay == IF delay_s # Null THEN PyInt(delay_s) ELSE Ok(default_delay_s)
         IN
         IF ~delay.ok THEN Err("uncaught_exception", idx)
         ELSE CASE action = S("click") -> tg_click(st, idx, delay.v)
                [] action = S("type") -> tg_type(st, idx, delay.v)
                [] action = S("hotkey") -> tg_hotkey(st, idx, delay.v)
                [] action = S("wait") -> tg_wait(st, idx)
                [] OTHER -> tg_unsupported(st, idx, delay.v)

RECURSIVE tg_steps(_, _, _, _)
tg_steps(steps, idx, default_delay_s, acc) ==
    IF idx > Len(steps) THEN Emit(acc)
    ELSE LET r == tg_step(steps[idx], idx, default_delay_s) IN
         IF r.status = "error" THEN r
         ELSE tg_steps(steps, idx + 1, default_delay_s, acc \o r.stmts)

\* mutant: a flow without show_desktop falls back on global.show_desktop
flow_show_desktop_global(flow) ==
    Truthy(Or(Get(flow, "show_desktop"), Or(Get(Get(flow_yaml, "global"), "show_desktop"), B(FALSE))))

\* flow-level show_desktop: bool(flow.get("show_desktop") or False)
flow_show_desktop(flow) == Truthy(Or(Get(flow, "show_desktop"), B(FALSE)))

\* the anchor checks shared by generate and generate_multiple
tg_anchor(flow) ==
    LET anchor == Get(flow, "anchor") IN
    IF ~IsDict(anchor) THEN ErrAt("anchor_missing", 0, "anchor")
    ELSE LET anchor_image_rel == Get(anchor, "image")
             click_in_image == Get(anchor, "click_in_image")
         IN
    IF ~IsStr(anchor_image_rel) \/ ~Truthy(anchor_image_rel)
    THEN ErrAt("anchor_image_missing", 0, "anchor.image")
    ELSE IF ~(IsDict(click_in_image) /\ Has(click_in_image, "x") /\ Has(click_in_image, "y"))
    THEN ErrAt("click_in_image_missing", 0, "anchor.click_in_image")
    ELSE LET cx == PyInt(Get(click_in_image, "x"))
             cy == PyInt(Get(click_in_image, "y"))
         IN
    IF ~cx.ok \/ ~cy.ok THEN Err("uncaught_exception", 0)
    ELSE AnchorOk(anchor_image_rel, cx.v, cy.v)

\* generate(project_dir, flow_id, out_path, export_show_desktop=None)
\* the document-level part shared by generate and generate_multiple:
\* version, meta.default_delay_s, global confidence/grayscale, _editor screen
tg_header(doc) ==
    LET version == PyInt(Or(Get(doc, "version"), I(0))) IN
    IF ~version.ok THEN Err("uncaught_exception", 0)
    ELSE IF version.v # 0 THEN Err("unsupported_version", 0)
    ELSE LET meta == Or(Get(doc, "meta"), EmptyMap)
             glob == Or(Get(doc, "global"), EmptyMap)
         IN
    IF ~CanGet(meta) \/ ~CanGet(glob) THEN Err("uncaught_exception", 0)
    ELSE LET default_delay_s == PyInt(Or(Get(meta, "default_delay_s"), I(2)))
             confidence == PyFloat(Or(Get(glob, "confidence"), F(90)))
             grayscale == IF Has(glob, "grayscale") THEN Truthy(Get(glob, "grayscale")) ELSE TRUE
             ed == IF IsDict(Get(glob, "_editor")) THEN Get(glob, "_editor") ELSE EmptyMap
             csw == Get(ed, "capture_screen_w")
             csh == Get(ed, "capture_screen_h")
         IN
    IF ~default_delay_s.ok \/ ~confidence.ok THEN Err("uncaught_exception", 0)
    ELSE IF (csw # Null /\ ~PyInt(csw).ok) \/ (csh # Null /\ ~PyInt(csh).ok)
         THEN Err("uncaught_exception", 0)
    ELSE [status |-> "ok",
          default_delay_s |-> default_delay_s.v,
          confidence |-> F(confidence.v),
          grayscale |-> grayscale,
          check_screen |-> [op |-> "check_screen", step |-> 0,
                            w |-> IF csw # Null THEN I(PyInt(csw).v) ELSE Null,
                            h |-> IF csh # Null THEN I(PyInt(csh).v) ELSE Null]]

\* generate(project_dir, flow_id, out_path, export_show_desktop=None)
generate(doc, flow_id) ==
    LET hd == tg_header(doc) IN
    IF hd.status = "error" THEN hd
    ELSE LET found == _get_flow(doc, flow_id) IN
    IF found.status = "error" THEN found
    ELSE LET flow == found.flow
             export_show_desktop == flow_show_desktop(flow)
             a == tg_anchor(flow)
         IN
    IF a.status = "error" THEN a
    ELSE LET anchor_image_rel == a.image
             cx == Ok(a.cix)
             cy == Ok(a.ciy)
             steps == Or(Get(flow, "steps"), L(<<>>))
         IN
    IF ~IsList(steps) THEN Err("uncaught_exception", 0)
    ELSE LET body == tg_steps(steps[2], 1, hd.default_delay_s, <<>>) IN
         IF body.status = "error" THEN body
         ELSE [status |-> "ok",
               gen |-> "generate",
               confidence |-> hd.confidence,
               grayscale |-> hd.grayscale,
               body |-> <<hd.check_screen>>
                        \o (IF export_show_desktop
                            THEN <<[op |-> "show_desktop", step |-> 0]>> ELSE <<>>)
                        \o <<LocateStmt(anchor_image_rel[2], cx.v, cy.v)>>
                        \o body.stmts]

\* "# --- flow: fid ---": the start of the block of the k-th requested flow
FlowMark(fid, k) == [op |-> "flow", step |-> 0, fid |-> fid, k |-> k]

\* the loop of generate_multiple over flow_ids, from position k on
RECURSIVE gm_flows(_, _, _, _, _)
gm_flows(doc, flow_ids, k, default_delay_s, acc) ==
    IF k > Len(flow_ids) THEN Emit(acc)
    ELSE LET found == _get_flow(doc, flow_ids[k]) IN
    IF found.status = "error" THEN found
    ELSE LET flow == found.flow
             a == tg_anchor(flow)
         IN
    IF a.status = "error" THEN a
    ELSE LET steps == Or(Get(flow, "steps"), L(<<>>)) IN
    IF ~IsList(steps) THEN Err("uncaught_exception", 0)
    ELSE LET show == flow_show_desktop(flow)
             body == tg_steps(steps[2], 1, default_delay_s, <<>>)
         IN
    IF body.status = "error" THEN body
    ELSE gm_flows(doc, flow_ids, k + 1, default_delay_s,
                  acc \o <<FlowMark(flow_ids[k], k)>>
                      \o (IF show THEN <<[op |-> "show_desktop", step |-> 0]>> ELSE <<>>)
                      \o <<LocateStmt(a.image[2], a.cix, a.ciy)>>
                      \o body.stmts)

\* generate_multiple(project_dir, flow_ids, out_path)
generate_multiple(doc, flow_ids) ==
    LET hd == tg_header(doc) IN
    IF hd.status = "error" THEN hd
    ELSE LET blocks == gm_flows(doc, flow_ids, 1, hd.default_delay_s, <<>>) IN
    IF blocks.status = "error" THEN blocks
    ELSE [status |-> "ok",
          gen |-> "generate_multiple",
          confidence |-> hd.confidence,
          grayscale |-> hd.grayscale,
          body |-> <<hd.check_screen>> \o blocks.stmts]


(***************************************************************************)
(* The emitted script at run time.                                         *)
(***************************************************************************)
\* mutant: the anchor click point is clamped onto the screen
anchor_click_xy_clamped(ax, ay, cix, ciy) == <<max(0, ax + cix), max(0, ay + ciy)>>

\* anchor_click_x = ax + int(cix); anchor_click_y = ay + int(ciy)
anchor_click_xy(ax, ay, cix, ciy) == <<ax + cix, ay + ciy>>

\* x = anchor_click_x + (ox); y = anchor_click_y + (oy)
click_point(acxy, ox, oy) == <<acxy[1] + ox, acxy[2] + oy>>

\* what one statement does when executed with the located anchor click point
perform(stmt, acxy) ==
    CASE stmt.op = "click" ->
            <<[op |-> "click", step |-> stmt.step,
               x |-> click_point(acxy, stmt.ox, stmt.oy)[1],
               y |-> click_point(acxy, stmt.ox, stmt.oy)[2],
               clicks |-> stmt.clicks, button |-> stmt.button]>>
      [] stmt.op = "write" ->
            <<[op |-> "write", step |-> stmt.step, text |-> stmt.text,
               interval |-> stmt.interval]>>
      [] stmt.op = "hotkey" ->
            <<[op |-> "hotkey", step |-> stmt.step, keys |-> stmt.keys]>>
      [] stmt.op = "sleep" ->
            <<[op |-> "sleep", step |-> stmt.step, secs |-> stmt.secs, role |-> stmt.role]>>
      [] stmt.op = "show_desktop" ->
            <<[op |-> "hotkey", step |-> 0, keys |-> <<"win", "d">>],
              [op |-> "sleep", step |-> 0, secs |-> 50, role |-> "show_desktop"]>>
      [] OTHER -> <<>>

(***************************************************************************)
(* Documents of the model.                                                 *)
(***************************************************************************)
Offsets == {M([x |-> I(3), y |-> I(-2)]), M([x |-> I(-4), y |-> I(5)])}

ClickSteps ==
    {M([action |-> S("click"), offset |-> o]) : o \in Offsets}
    \cup {M([action |-> S("click"), offset |-> M([x |-> I(3), y |-> I(-2)]),
             button |-> S("right"), clicks |-> I(2), delay_s |-> I(1)])}

TypeSteps ==
    {M([action |-> S("type"), text |-> S("hi")]),
     M([action |-> S("type"), text |-> S("hi"), interval_s |-> F(10), delay_s |-> F(50)])}

HotkeySteps == {M([action |-> S("hotkey"), keys |-> L(<<S("ctrl"), S("c")>>), delay_s |-> I(1)])}

WaitSteps == {M([action |-> S("wait"), seconds |-> I(1)])}

\* hand-edited steps: a hotkey with no keys, a wait that is negative or
\* fractional, a click count outside 1..2 and a click or type step that
\* lacks a required field
EmptyHotkeySteps ==
    {M([action |-> S("hotkey"), keys |-> L(<<>>), delay_s |-> I(1)]),
     M([action |-> S("hotkey"), delay_s |-> I(1)])}

OddWaitSteps ==
    {M([action |-> S("wait"), seconds |-> I(-1)]),
     M([action |-> S("wait"), seconds |-> F(150)])}

OddClicksSteps ==
    {M([action |-> S("click"), offset |-> M([x |-> I(3), y |-> I(-2)]), clicks |-> I(n),
        delay_s |-> I(1)]) : n \in {0, 3}}

MissingFieldSteps ==
    {M([action |-> S("click"), delay_s |-> I(1)]),
     M([action |-> S("click"), offset |-> M([x |-> I(3)]), delay_s |-> I(1)]),
     M([action |-> S("type"), delay_s |-> I(1)])}

\* an action the compilers do not know, and a step with no action field
UnsupportedSteps == {M([action |-> S("scroll"), delay_s |-> I(1)]), M([delay_s |-> I(1)])}

\* a list element that is not a mapping
ScalarSteps == {S("oops")}

\* the steps the editor records, and what a compiler may skip or refuse
CoreShapes ==
    ClickSteps \cup TypeSteps \cup HotkeySteps \cup WaitSteps
    \cup UnsupportedSteps \cup ScalarSteps

\* a type step that asks for no pause between the characters
ZeroIntervalSteps ==
    {M([action |-> S("type"), text |-> S("hi"), interval_s |-> I(0), delay_s |-> I(1)])}

OddShapes ==
    EmptyHotkeySteps \cup OddWaitSteps \cup OddClicksSteps \cup MissingFieldSteps
    \cup ZeroIntervalSteps

StepShapes == CoreShapes \cup OddShapes

CoreSeqs == UNION {[1..n -> CoreShapes] : n \in 0..MaxSteps}

\* the steps lists of the model: a hand-edited step, if any, is the last one
StepSeqs ==
    CoreSeqs \cup {Append(ss, o) : ss \in {c \in CoreSeqs : Len(c) < MaxSteps}, o \in OddShapes}

\* steps lists of at most one step
ShortSeqs == {ss \in StepSeqs : Len(ss) <= 1}

MainAnchor == M([image |-> S("anchors/f1.png"), click_in_image |-> M([x |-> I(5), y |-> I(7)])])

OriginAnchor == M([image |-> S("anchors/f1.png"), click_in_image |-> M([x |-> I(0), y |-> I(0)])])

AnchorShapes == {MainAnchor, OriginAnchor}

\* every steps list under one anchor; the other anchors, and flows whose
\* anchor is null or missing (a new flow of the editor), with short lists
FlowShapes ==
    {M([id |-> S("f1"), anchor |-> MainAnchor, steps |-> L(ss)]) : ss \in StepSeqs}
    \cup {M([id |-> S("f1"), anchor |-> a, steps |-> L(ss)]) :
             a \in AnchorShapes \cup {Null}, ss \in ShortSeqs}
    \cup {M([id |-> S("f1"), steps |-> L(ss)]) : ss \in ShortSeqs}

GlobalShapes == {M([confidence |-> F(90), grayscale |-> B(TRUE)])}

MetaShapes == {M([name |-> S("demo"), default_delay_s |-> I(2)])}

Docs ==
    {M([version |-> I(0), meta |-> m, global |-> g, flows |-> L(<<f>>)]) :
        m \in MetaShapes, g \in GlobalShapes, f \in FlowShapes}

\* documents with two flows: the first is f1; the second is f2 or a second
\* f1, with or without an anchor; each has its own show_desktop or none
SomeClick == M([action |-> S("click"), offset |-> M([x |-> I(3), y |-> I(-2)])])

OtherClick == M([action |-> S("click"), offset |-> M([x |-> I(-4), y |-> I(5)])])

ShowDesktopShapes == {Null, B(TRUE), B(FALSE)}

WithShowDesktop(fields, sd) ==
    IF sd = Null THEN M(fields) ELSE M(fields @@ [show_desktop |-> sd])

FirstFlows ==
    {WithShowDesktop([id |-> S("f1"), anchor |-> MainAnchor, steps |-> L(<<SomeClick>>)], sd) :
        sd \in {Null, B(TRUE)}}

SecondFlows ==
    {WithShowDesktop([id |-> S(fid), anchor |-> a, steps |-> L(ss)], sd) :
        fid \in {"f1", "f2"}, a \in {OriginAnchor, Null},
        ss \in {<<M([action |-> S("wait"), seconds |-> I(1)])>>,
                <<OtherClick, M([action |-> S("scroll"), delay_s |-> I(1)])>>},
        sd \in ShowDesktopShapes}

\* global._editor as the editor writes it after an anchor capture, and a
\* hand-edited one that has lost the height
EditorMetaShapes ==
    {M([capture_screen_w |-> I(1920), capture_screen_h |-> I(1080)]),
     M([capture_screen_w |-> I(1920)])}

MultiGlobalShapes ==
    GlobalShapes \cup {M([confidence |-> F(90), grayscale |-> B(TRUE), show_desktop |-> B(TRUE)])}
    \cup {M([confidence |-> F(90), grayscale |-> B(TRUE), _editor |-> e]) : e \in EditorMetaShapes}

MultiDocs ==
    {M([version |-> I(0), meta |-> m, global |-> g, flows |-> L(<<f, s>>)]) :
        m \in MetaShapes, g \in MultiGlobalShapes, f \in FirstFlows, s \in SecondFlows}

\* documents of another version, of a fractional version and with no version
VersionShapes == {I(1), F(50)}

VersionFlow == M([id |-> S("f1"), anchor |-> MainAnchor, steps |-> L(<<SomeClick>>)])

VersionDocs ==
    {M([version |-> v, meta |-> m, global |-> g, flows |-> L(<<VersionFlow>>)]) :
        v \in VersionShapes, m \in MetaShapes, g \in GlobalShapes}
    \cup {M([meta |-> m, global |-> g, flows |-> L(<<VersionFlow>>)]) :
             m \in MetaShapes, g \in GlobalShapes}

AllDocs == Docs \cup MultiDocs \cup VersionDocs

\* the ids a generator is asked for; no document has a flow f3
FlowIds == {"f1", "f2", "f3"}

\* where locateOnScreen can find the anchor
Boxes == {[x |-> 100, y |-> 200, w |-> 50, h |-> 50], [x |-> -10, y |-> -3, w |-> 50, h |-> 50]}

NoBox == [x |-> 0, y |-> 0, w |-> 0, h |-> 0]

\* what pyautogui.size() can return when the script runs
ScreenSizes == {<<1920, 1080>>, <<1280, 720>>}

NoScreen == <<0, 0>>

(***************************************************************************)
(* The editor (auto_click_editor.py): self.data is the parsed flow.yaml,   *)
(* edited in place by the handlers of AutoClickEditor.                     *)
(***************************************************************************)
\* most clicks recorded in one document
MaxRecorded == 2

DEFAULT_DELAY_S == 2

\* full_w, full_h: the size capture_fullscreen_bgr() reports
FullSize == <<12, 10>>

\* where the pointer is when an event arrives: a point inside the rectangles
\* that get captured, and a point left of and below them
MousePoints == {<<4, 5>>, <<0, 9>>}

\* what cv2.selectROI returns as (x, y, w, h): a rectangle on the screen and
\* one too narrow to be kept
RoiChoices == {<<2, 3, 6, 6>>, <<3, 2, 4, 7>>}

\* d[k] = v
SetKey(d, k, v) == M([kk \in DOMAIN d[2] \cup {k} |-> IF kk = k THEN v ELSE d[2][kk]])

XY(x, y) == M([x |-> I(x), y |-> I(y)])

\* _new_doc(): the flows step1, step2, ... (the first two of the fifty), each
\* with no anchor and no steps
NewFlow(fid) == M([id |-> S(fid), title |-> S(fid), anchor |-> Null, steps |-> L(<<>>)])

_new_doc ==
    M([version |-> I(0),
       meta |-> M([name |-> S("auto-click"), default_delay_s |-> I(DEFAULT_DELAY_S)]),
       global |-> M([confidence |-> F(90), grayscale |-> B(TRUE)]),
       flows |-> L(<<NewFlow("step1"), NewFlow("step2")>>)])

\* _persist_editor_settings_to_doc(): preview_dx, preview_dy and
\* preview_display_size under global._editor
_persist_editor_settings_to_doc(d) ==
    LET g == IF IsDict(Get(d, "global")) THEN Get(d, "global") ELSE EmptyMap
        ed == IF IsDict(Get(g, "_editor")) THEN Get(g, "_editor") ELSE EmptyMap
        ed3 == SetKey(SetKey(SetKey(ed, "preview_dx", I(0)), "preview_dy", I(0)),
                      "preview_display_size", I(180))
    IN SetKey(d, "global", SetKey(g, "_editor", ed3))

\* _flows(): list(self.data.get("flows") or [])
_flows(d) == Or(Get(d, "flows"), L(<<>>))[2]

\* the editor's _get_flow(flow_id): index of the first flow with the id, or 0
editor_get_flow(d, fid) ==
    LET m == {j \in 1..Len(_flows(d)) : Get(_flows(d)[j], "id") = fid} IN
    IF m = {} THEN 0 ELSE CHOOSE j \in m : \A k \in m : j <= k

\* mutant: a flow is appended even when the id exists
_ensure_flow_always_appends(d, fid) ==
    [doc |-> SetKey(d, "flows",
                    L(Append(_flows(d), M([id |-> fid, title |-> fid,
                                           anchor |-> Null, steps |-> L(<<>>)])))),
     i |-> Len(_flows(d)) + 1]

\* _ensure_flow(flow_id): the document (with a new empty flow appended when
\* no flow has the id) and the index of the flow
_ensure_flow(d, fid) ==
    IF editor_get_flow(d, fid) # 0 THEN [doc |-> d, i |-> editor_get_flow(d, fid)]
    ELSE [doc |-> SetKey(d, "flows",
                         L(Append(_flows(d), M([id |-> fid, title |-> fid,
                                                anchor |-> Null, steps |-> L(<<>>)])))),
          i |-> Len(_flows(d)) + 1]

\* f[k] = v for the flow at index i
SetFlowKey(d, i, k, v) ==
    SetKey(d, "flows", L([_flows(d) EXCEPT ![i] = SetKey(_flows(d)[i], k, v)]))

\* the longest log that is explored
MaxLog == 4

\* A line of the JSONL log is <<type, x, y, name, value>> (the time stamp is
\* left out): <<"click", x, y, button, pressed>>, <<"state", 0, 0, "paused", b>>,
\* <<"state", 0, 0, "stopped", TRUE>>, <<"meta", 0, 0, "out", FALSE>>.
\* mouse_cb is <<"none", 0, 0, "", FALSE>> while on_click is not running.

\* the recorder is not part of the run
RecIdle ==
    /\ rec_paused = FALSE
    /\ rec_stopped = FALSE
    /\ f_lines = <<>>
    /\ f_closed = TRUE
    /\ mouse_cb = <<"none", 0, 0, "", FALSE>>
    /\ kb_cb = "stopped"
    /\ listening = FALSE
    /\ main_pc = "closed"

\* the editor as __init__ leaves it
EdConstructed ==
    /\ data = _new_doc
    /\ project_dir = Null
    /\ current_flow_id = Null
    /\ recording = FALSE
    /\ paused = FALSE
    /\ expect_anchor_click = FALSE
    /\ pending_action = Null
    /\ self_anchor_click_xy = Null
    /\ _last_move_xy = Null

(***************************************************************************)
(* Generator specification: a document is given, one of the generators is  *)
(* run on it, and the script it wrote is executed statement by statement.  *)
(***************************************************************************)
GenIdle ==
    /\ req = [gen |-> "none"]
    /\ result = [status |-> "none"]
    /\ written = "nothing"

RunIdle ==
    /\ rpc = 0
    /\ rstatus = "idle"
    /\ box = NoBox
    /\ performed = <<>>
    /\ cur_screen = NoScreen

PlanIdle ==
    /\ click_x = 0
    /\ click_y = 0
    /\ screen_w = 0
    /\ screen_h = 0
    /\ size = 0
    /\ dx = 0
    /\ dy = 0
    /\ plan = [status |-> "none"]
    /\ op = "init"

GenInit ==
    /\ flow_yaml \in AllDocs
    /\ GenIdle
    /\ RunIdle
    /\ RecIdle
    /\ PlanIdle
    /\ EdConstructed

\* mutant: the output target is opened and written before the compile result is known
main_written_early(text, out) == IF text.status = "dry" THEN "stdout" ELSE out

\* what main() writes: nothing when generate_script raised, the listing on
\* stdout for a dry run, else the script to --out (or stdout)
main_written(text, out) ==
    CASE text.status = "error" -> "nothing"
      [] text.status = "dry" -> "stdout"
      [] OTHER -> out

\* the tools generators write out_path as their last statement
tools_written(r) == IF r.status = "ok" THEN "file" ELSE "nothing"

\* generate_pyautogui.main(): --flow, --out, --dry-run, --no-confidence
MainGenerateScript ==
    /\ result.status = "none"
    /\ \E flow_id \in FlowIds, use_confidence \in BOOLEAN, dry_run \in BOOLEAN,
          anchor_exists \in BOOLEAN, out \in {"file", "stdout"} :
         LET text == generate_script(flow_yaml, flow_id, use_confidence, dry_run, anchor_exists) IN
         /\ req' = [gen |-> "generate_script", flow_id |-> flow_id, dry_run |-> dry_run,
                    anchor_exists |-> anchor_exists, out |-> out]
         /\ result' = text
         /\ written' = main_written(text, out)
    /\ UNCHANGED <<flow_yaml, planVars, edVars, recVars, runVars>>

\* tools/generate_pyautogui_script.cli(): --flow-id, --out; the anchor
\* image file is there or not, and generate() does not look
CliGenerate ==
    /\ result.status = "none"
    /\ \E flow_id \in FlowIds, anchor_exists \in BOOLEAN :
         LET r == generate(flow_yaml, flow_id) IN
         /\ req' = [gen |-> "generate", flow_id |-> flow_id, dry_run |-> FALSE,
                    anchor_exists |-> anchor_exists, out |-> "file"]
         /\ result' = r
         /\ written' = tools_written(r)
    /\ UNCHANGED <<flow_yaml, planVars, edVars, recVars, runVars>>

\* the lists of flow ids a composition is asked for
FlowIdLists == UNION {[1..n -> FlowIds] : n \in 1..MaxFlowIds}

\* tools/generate_pyautogui_script.generate_multiple(project_dir, flow_ids, out_path)
CallGenerateMultiple ==
    /\ result.status = "none"
    /\ \E flow_ids \in FlowIdLists :
         LET r == generate_multiple(flow_yaml, flow_ids) IN
         /\ req' = [gen |-> "generate_multiple", flow_ids |-> flow_ids, dry_run |-> FALSE,
                    anchor_exists |-> TRUE, out |-> "file"]
         /\ result' = r
         /\ written' = tools_written(r)
    /\ UNCHANGED <<flow_yaml, planVars, edVars, recVars, runVars>>

Runnable == result.status = "ok" /\ written # "nothing"

NextStmt == result.body[rpc + 1]

AnchorClickXY(stmt) == anchor_click_xy(box.x, box.y, stmt.cix, stmt.ciy)

\* mutant: the anchor click point is the one computed for the first flow
last_locate_first(body, i) ==
    CHOOSE j \in 1..i : body[j].op = "locate" /\ \A k \in 1..(j - 1) : body[k].op # "locate"

\* the locate statement most recently executed
RECURSIVE last_locate(_, _)
last_locate(body, i) ==
    IF i = 0 THEN 0
    ELSE IF body[i].op = "locate" THEN i
    ELSE last_locate(body, i - 1)

\* mutant: the screen size is read but a mismatch is not fatal
screen_matches_lenient(stmt, cur) == TRUE

\* "if expected_screen[0] is not None and expected_screen[1] is not None:
\*  ... if (cur.width, cur.height) != expected_screen: raise RuntimeError"
screen_matches(stmt, cur) ==
    (stmt.w # Null /\ stmt.h # Null) => cur = <<stmt.w[2], stmt.h[2]>>

\* the screen size check at the head of main() of a tools script
RunCheckScreen ==
    /\ Runnable
    /\ rstatus \in {"idle", "running"}
    /\ rpc < Len(result.body)
    /\ NextStmt.op = "check_screen"
    /\ \E cur \in ScreenSizes :
         /\ cur_screen' = cur
         /\ IF screen_matches(NextStmt, cur)
            THEN /\ rstatus' = "running"
                 /\ rpc' = rpc + 1
            ELSE /\ rstatus' = "RuntimeError"
                 /\ UNCHANGED rpc
    /\ UNCHANGED <<box, performed, planVars, edVars, recVars, genVars>>

\* the prologue of the script: anchor file check, Win+D, flow header
RunPrologue ==
    /\ Runnable
    /\ rstatus \in {"idle", "running"}
    /\ rpc < Len(result.body)
    /\ NextStmt.op \in {"anchor_exists", "show_desktop", "flow"}
    /\ \E passes \in BOOLEAN :
         IF NextStmt.op \in {"show_desktop", "flow"} \/ passes
         THEN /\ rstatus' = "running"
              /\ rpc' = rpc + 1
              /\ performed' = performed \o perform(NextStmt, <<0, 0>>)
         ELSE /\ rstatus' = "RuntimeError"
              /\ UNCHANGED <<rpc, performed>>
    /\ UNCHANGED <<box, cur_screen, planVars, edVars, recVars, genVars>>

\* the locate_anchor call of a script as it happened: the image searched,
\* the click_in_image the script holds and the top-left corner found
Located(stmt, b) ==
    [op |-> "locate", step |-> 0, image |-> stmt.image, cix |-> stmt.cix, ciy |-> stmt.ciy,
     x |-> b.x, y |-> b.y]

\* box = locate_anchor(...): found somewhere on screen, or not found
RunLocate ==
    /\ Runnable
    /\ rstatus \in {"idle", "running"}
    /\ rpc < Len(result.body)
    /\ NextStmt.op = "locate"
    /\ \/ \E b \in Boxes :
            /\ req.anchor_exists
            /\ box' = b
            /\ rstatus' = "running"
            /\ rpc' = rpc + 1
            /\ performed' = Append(performed, Located(NextStmt, b))
       \/ /\ rstatus' = "RuntimeError"
          /\ UNCHANGED <<box, rpc, performed>>
    /\ UNCHANGED <<cur_screen, planVars, edVars, recVars, genVars>>

\* one statement of a compiled step
RunStmt ==
    /\ Runnable
    /\ rstatus = "running"
    /\ rpc < Len(result.body)
    /\ NextStmt.op \in {"comment", "click", "write", "hotkey", "sleep"}
    /\ performed' = performed \o
          perform(NextStmt, AnchorClickXY(result.body[last_locate(result.body, rpc)]))
    /\ rpc' = rpc + 1
    /\ UNCHANGED <<rstatus, box, cur_screen, planVars, edVars, recVars, genVars>>

\* print('done') / return from run()
RunDone ==
    /\ Runnable
    /\ rstatus = "running"
    /\ rpc = Len(result.body)
    /\ rstatus' = "done"
    /\ UNCHANGED <<rpc, box, performed, cur_screen, planVars, edVars, recVars, genVars>>

GenNext ==
    \/ MainGenerateScript
    \/ CliGenerate
    \/ RunCheckScreen
    \/ RunPrologue
    \/ RunLocate
    \/ RunStmt
    \/ RunDone

SpecGen == GenInit /\ [][GenNext]_vars

\* Composition specification: a document with several flows is given and
\* any of the three generators is run on it.
ComposeInit ==
    /\ flow_yaml \in MultiDocs
    /\ GenIdle
    /\ RunIdle
    /\ RecIdle
    /\ PlanIdle
    /\ EdConstructed

ComposeNext ==
    \/ MainGenerateScript
    \/ CliGenerate
    \/ CallGenerateMultiple
    \/ RunCheckScreen
    \/ RunPrologue
    \/ RunLocate
    \/ RunStmt
    \/ RunDone

SpecCompose == ComposeInit /\ [][ComposeNext]_vars


(***************************************************************************)
(* Planner specification: the inputs are drawn in Init (dx = dy = 0 are    *)
(* the defaults of the signature), the function is called, and it is       *)
(* called again with a calibration shift as the editor and the tests do.   *)
(***************************************************************************)
PlanInit ==
    /\ click_x \in Coords
    /\ click_y \in Coords
    /\ screen_w \in Bounds
    /\ screen_h \in Bounds
    /\ size \in Sizes
    /\ dx = 0
    /\ dy = 0
    /\ plan = [status |-> "none"]
    /\ op = "init"
    /\ flow_yaml = Null
    /\ GenIdle
    /\ RunIdle
    /\ RecIdle
    /\ EdConstructed

CallPlan ==
    /\ op = "init"
    /\ plan' = preview_crop_plan(click_x, click_y, screen_w, screen_h, size, dx, dy)
    /\ op' = "call"
    /\ UNCHANGED <<click_x, click_y, screen_w, screen_h, size, dx, dy, genVars, runVars, edVars, recVars>>

CallPlanShifted ==
    /\ op # "init"
    /\ \E ndx \in Shifts, ndy \in Shifts :
         /\ dx' = ndx
         /\ dy' = ndy
         /\ plan' = preview_crop_plan(click_x, click_y, screen_w, screen_h, size, ndx, ndy)
    /\ op' = "shift"
    /\ UNCHANGED <<click_x, click_y, screen_w, screen_h, size, genVars, runVars, edVars, recVars>>

PlanNext == CallPlan \/ CallPlanShifted

SpecPlan == PlanInit /\ [][PlanNext]_vars

(***************************************************************************)
(* Editor specification: the handlers of AutoClickEditor run in any order  *)
(* on the window as constructed.  Screenshots and previews are saved       *)
(* unless stated; pointer positions and ROI rectangles are drawn from      *)
(* MousePoints and RoiChoices.                                             *)
(***************************************************************************)
EdInit ==
    /\ EdConstructed
    /\ flow_yaml = Null
    /\ GenIdle
    /\ RunIdle
    /\ RecIdle
    /\ PlanIdle

otherVars == <<planVars, genVars, runVars, recVars>>

\* the flow the handlers work on: f = self._ensure_flow(self.current_flow_id)
CurFlow == _flows(data)[editor_get_flow(data, current_flow_id)]

TotalSteps(d) ==
    LET RECURSIVE Sum(_)
        Sum(i) == IF i = 0 THEN 0 ELSE Len(Or(Get(_flows(d)[i], "steps"), L(<<>>))[2]) + Sum(i - 1)
    IN Sum(Len(_flows(d)))

\* on_choose_project(): a new project directory; flow.yaml is created from
\* _new_doc() and the first row of the flow list is selected
on_choose_project ==
    /\ project_dir' = S("project")
    /\ data' = _persist_editor_settings_to_doc(_new_doc)
    /\ current_flow_id' = S(PyStr(Get(_flows(_new_doc)[1], "id")))
    /\ self_anchor_click_xy' = Null
    /\ expect_anchor_click' = FALSE
    /\ UNCHANGED <<recording, paused, pending_action, _last_move_xy, otherVars>>

\* on_flow_selected(idx), idx >= 0: currentRowChanged of the flow list
on_flow_selected ==
    \E idx \in 1..Len(_flows(data)) :
        /\ S(PyStr(Get(_flows(data)[idx], "id"))) # current_flow_id
        /\ current_flow_id' = S(PyStr(Get(_flows(data)[idx], "id")))
        /\ self_anchor_click_xy' = Null
        /\ expect_anchor_click' = FALSE
        /\ UNCHANGED <<data, project_dir, recording, paused, pending_action, _last_move_xy,
                       otherVars>>

\* on_capture_anchor(): wait for F9
on_capture_anchor ==
    /\ Truthy(current_flow_id)
    /\ Truthy(project_dir)
    /\ pending_action' = S("capture_anchor")
    /\ UNCHANGED <<data, project_dir, current_flow_id, recording, paused, expect_anchor_click,
                   self_anchor_click_xy, _last_move_xy, otherVars>>

\* "ed['capture_screen_w'] = int(full_w); ed['capture_screen_h'] = int(full_h)"
with_capture_screen(d) ==
    LET g == IF IsDict(Get(d, "global")) THEN Get(d, "global") ELSE EmptyMap
        ed == IF IsDict(Get(g, "_editor")) THEN Get(g, "_editor") ELSE EmptyMap
    IN SetKey(d, "global",
              SetKey(g, "_editor",
                     SetKey(SetKey(ed, "capture_screen_w", I(FullSize[1])),
                            "capture_screen_h", I(FullSize[2]))))

\* "Clamp ROI to screenshot bounds"
clamp_roi(roi) ==
    LET x == clamp(roi[1], 0, FullSize[1] - 1)
        y == clamp(roi[2], 0, FullSize[2] - 1)
    IN <<x, y, clamp(roi[3], 1, FullSize[1] - x), clamp(roi[4], 1, FullSize[2] - y)>>

\* the anchor stored after a capture: click_in_image is the centre
captured_anchor(fid, r) ==
    M([image |-> S("anchors/<flow_id>_anchor.png"),
       click_in_image |-> XY(r[3] \div 2, r[4] \div 2),
       capture_rect |-> M([x |-> I(r[1]), y |-> I(r[2]), w |-> I(r[3]), h |-> I(r[4])])])

\* _do_capture_anchor_after_f9(): F9 while a capture is pending.  shot: the
\* screenshot was taken; roi: the selection ((0,0,0,0) when cancelled or on
\* an exception); wrote: the anchor image was saved
_do_capture_anchor_after_f9 ==
    /\ pending_action = S("capture_anchor")
    /\ pending_action' = Null
    /\ \E shot \in BOOLEAN, roi \in RoiChoices \cup {<<0, 0, 0, 0>>}, wrote \in BOOLEAN :
         IF ~shot THEN UNCHANGED data
         ELSE IF roi[3] <= 5 \/ roi[4] <= 5 THEN data' = with_capture_screen(data)
         ELSE IF ~wrote THEN data' = with_capture_screen(data)
         ELSE LET e == _ensure_flow(with_capture_screen(data), current_flow_id) IN
              data' = SetFlowKey(e.doc, e.i, "anchor",
                                 captured_anchor(current_flow_id, clamp_roi(roi)))
    /\ UNCHANGED <<project_dir, current_flow_id, recording, paused, expect_anchor_click,
                   self_anchor_click_xy, _last_move_xy, otherVars>>

\* on_set_anchor_click(): wait for F9
on_set_anchor_click ==
    /\ Truthy(current_flow_id)
    /\ Truthy(Get(CurFlow, "anchor"))
    /\ pending_action' = S("set_anchor_basepoint")
    /\ UNCHANGED <<data, project_dir, current_flow_id, recording, paused, expect_anchor_click,
                   self_anchor_click_xy, _last_move_xy, otherVars>>

\* _listener_xy_to_pixel(x, y): int(x), int(y)
_listener_xy_to_pixel(x, y) == <<x, y>>

\* mutant: the point relative to the image, not clamped
click_in_image_of_raw(p, r0, rw) == p - r0

\* "ix = clamp(int(px - rx), 0, max(0, rw - 1))"
click_in_image_of(p, r0, rw) == clamp(p - r0, 0, max(0, rw - 1))

\* the anchor after the basepoint is set at (px, py)
with_basepoint(anch, px, py) ==
    LET r == Get(anch, "capture_rect")
        a1 == IF IsDict(r)
              THEN SetKey(anch, "click_in_image",
                          XY(click_in_image_of(px, Get(r, "x")[2], Get(r, "w")[2]),
                             click_in_image_of(py, Get(r, "y")[2], Get(r, "h")[2])))
              ELSE anch
    IN a1

\* _do_set_anchor_basepoint_after_f9(): F9 while a basepoint is pending; the
\* basepoint preview is saved
_do_set_anchor_basepoint_after_f9 ==
    /\ pending_action = S("set_anchor_basepoint")
    /\ pending_action' = Null
    /\ IF ~Truthy(current_flow_id) \/ ~IsDict(Get(CurFlow, "anchor")) \/ _last_move_xy = Null
       THEN UNCHANGED <<data, self_anchor_click_xy, recording, paused>>
       ELSE LET p == _listener_xy_to_pixel(_last_move_xy[2][1][2], _last_move_xy[2][2][2])
                i == editor_get_flow(data, current_flow_id)
            IN /\ self_anchor_click_xy' = XY(p[1], p[2])
               /\ data' = SetFlowKey(data, i, "anchor",
                             SetKey(with_basepoint(Get(CurFlow, "anchor"), p[1], p[2]),
                                    "basepoint_preview",
                                    S("previews/<flow_id>_anchor_basepoint.png")))
               /\ recording' = TRUE
               /\ paused' = FALSE
    /\ UNCHANGED <<project_dir, current_flow_id, expect_anchor_click, _last_move_xy, otherVars>>

\* mutant: F9 toggles pause even while an action is pending
toggle_pause_any ==
    /\ recording
    /\ paused' = ~paused
    /\ UNCHANGED <<data, project_dir, current_flow_id, recording, expect_anchor_click,
                   pending_action, self_anchor_click_xy, _last_move_xy, otherVars>>

\* _on_f9_gui() with nothing pending: toggle pause/resume while recording
toggle_pause ==
    /\ pending_action \notin {S("capture_anchor"), S("set_anchor_basepoint")}
    /\ recording
    /\ paused' = ~paused
    /\ UNCHANGED <<data, project_dir, current_flow_id, recording, expect_anchor_click,
                   pending_action, self_anchor_click_xy, _last_move_xy, otherVars>>

\* on_record()
on_record ==
    /\ Truthy(current_flow_id)
    /\ Truthy(Get(CurFlow, "anchor"))
    /\ self_anchor_click_xy # Null
    /\ recording' = TRUE
    /\ paused' = FALSE
    /\ UNCHANGED <<data, project_dir, current_flow_id, expect_anchor_click, pending_action,
                   self_anchor_click_xy, _last_move_xy, otherVars>>

\* mutant: stopping leaves the pause flag as it is
on_stop_keeps_paused ==
    /\ recording' = FALSE
    /\ expect_anchor_click' = FALSE
    /\ UNCHANGED <<data, project_dir, current_flow_id, paused, pending_action,
                   self_anchor_click_xy, _last_move_xy, otherVars>>

\* on_stop()
on_stop ==
    /\ recording' = FALSE
    /\ paused' = FALSE
    /\ expect_anchor_click' = FALSE
    /\ UNCHANGED <<data, project_dir, current_flow_id, pending_action, self_anchor_click_xy,
                   _last_move_xy, otherVars>>

\* _on_f10_gui(), and the Stop button, enabled in the same states
_on_f10_gui ==
    /\ recording \/ expect_anchor_click
    /\ on_stop

\* _on_move_gui(x, y)
_on_move_gui ==
    \E pt \in MousePoints :
        /\ _last_move_xy' = L(<<I(pt[1]), I(pt[2])>>)
        /\ UNCHANGED <<data, project_dir, current_flow_id, recording, paused,
                       expect_anchor_click, pending_action, self_anchor_click_xy, otherVars>>

\* mutant: clicks are taken while paused
not_recording_now_ignores_pause(rec, pau) == ~rec

\* "if not self.recording or self.paused: return"
not_recording_now(rec, pau) == ~rec \/ pau

\* the step a recorded click appends: "offset = {'x': bx - ax, 'y': by - ay}";
\* the preview is saved as previews/<flow_id>_step<step_idx>.png
click_step(bx, by, ax, ay, btn_name, fid, step_idx) ==
    M([action |-> S("click"),
       offset |-> XY(bx - ax, by - ay),
       button |-> S(btn_name),
       clicks |-> I(1),
       delay_s |-> I(DEFAULT_DELAY_S),
       preview |-> S(<<"previews", PyStr(fid), "step", step_idx>>),
       _editor |-> M([click_xy |-> XY(bx, by)])])

\* the press is one the handler turns into a step
Accepted(pressed, ours) ==
    /\ pressed
    /\ ~((recording /\ ~paused) /\ ours)
    /\ ~(expect_anchor_click /\ Truthy(current_flow_id))
    /\ ~not_recording_now(recording, paused)
    /\ Truthy(current_flow_id)
    /\ Truthy(Get(CurFlow, "anchor"))
    /\ self_anchor_click_xy # Null
    /\ Truthy(project_dir)

\* _on_click_gui(x, y, btn_name, pressed); ours: the point is inside one of
\* the editor's own windows
click_gui(pt, btn_name, pressed, ours) ==
    IF pressed /\ ~((recording /\ ~paused) /\ ours)
       /\ expect_anchor_click /\ Truthy(current_flow_id)
    THEN LET anch == Get(CurFlow, "anchor")
             p == _listener_xy_to_pixel(pt[1], pt[2])
         IN IF IsDict(anch) /\ IsDict(Get(anch, "capture_rect"))
            THEN /\ self_anchor_click_xy' = XY(p[1], p[2])
                 /\ data' = SetFlowKey(data, editor_get_flow(data, current_flow_id), "anchor",
                                       with_basepoint(anch, p[1], p[2]))
                 /\ expect_anchor_click' = FALSE
                 /\ recording' = TRUE
                 /\ paused' = FALSE
            ELSE UNCHANGED <<data, self_anchor_click_xy, expect_anchor_click, recording, paused>>
    ELSE IF Accepted(pressed, ours)
    THEN LET b == _listener_xy_to_pixel(pt[1], pt[2])
             ax == Get(self_anchor_click_xy, "x")[2]
             ay == Get(self_anchor_click_xy, "y")[2]
             i == editor_get_flow(data, current_flow_id)
             steps == Or(Get(CurFlow, "steps"), L(<<>>))[2]
         IN /\ data' = SetFlowKey(data, i, "steps",
                                  L(Append(steps, click_step(b[1], b[2], ax, ay, btn_name,
                                                           current_flow_id, Len(steps) + 1))))
            /\ UNCHANGED <<self_anchor_click_xy, expect_anchor_click, recording, paused>>
    ELSE UNCHANGED <<data, self_anchor_click_xy, expect_anchor_click, recording, paused>>

_on_click_gui ==
    \E pt \in MousePoints, btn_name \in {"left"}, pressed \in BOOLEAN, ours \in BOOLEAN :
        /\ Accepted(pressed, ours) => TotalSteps(data) < MaxRecorded
        /\ click_gui(pt, btn_name, pressed, ours)
        /\ UNCHANGED <<project_dir, current_flow_id, pending_action, _last_move_xy, otherVars>>

\* on_del_step(): the selected row of the steps table, after the two
\* reserved rows of a flow with an anchor, is popped from the flow's steps
on_del_step ==
    /\ Truthy(current_flow_id)
    /\ editor_get_flow(data, current_flow_id) # 0
    /\ LET reserved == IF IsDict(Get(CurFlow, "anchor")) THEN 2 ELSE 0
           steps == Or(Get(CurFlow, "steps"), L(<<>>))[2]
       IN \E row \in reserved..(reserved + Len(steps) - 1) :
              LET idx == row - reserved IN
              data' = SetFlowKey(data, editor_get_flow(data, current_flow_id), "steps",
                                 L([j \in 1..(Len(steps) - 1) |->
                                       IF j <= idx THEN steps[j] ELSE steps[j + 1]]))
    /\ UNCHANGED <<project_dir, current_flow_id, recording, paused, expect_anchor_click,
                   pending_action, self_anchor_click_xy, _last_move_xy, otherVars>>

\* on_add_flow(): a non-empty text t[1] is typed, t[2] is t[1].strip();
\* _ensure_flow(flow_id.strip()), then the flow is selected in the refreshed
\* list (currentRowChanged -> on_flow_selected)
on_add_flow ==
    /\ Truthy(project_dir)
    /\ \E t \in {<<"step1", "step1">>, <<" step3 ", "step3">>, <<" ", "">>} :
          /\ t[1] # ""
          /\ data' = _ensure_flow(data, S(t[2])).doc
          /\ current_flow_id' = S(t[2])
    /\ self_anchor_click_xy' = Null
    /\ expect_anchor_click' = FALSE
    /\ UNCHANGED <<project_dir, recording, paused, pending_action, _last_move_xy, otherVars>>

\* on_del_flow(): every flow with the id of the current list item is removed
on_del_flow ==
    /\ Truthy(current_flow_id)
    /\ editor_get_flow(data, current_flow_id) # 0
    /\ LET Kept(f) == Get(f, "id") # current_flow_id
       IN data' = SetKey(data, "flows", L(SelectSeq(_flows(data), Kept)))
    /\ current_flow_id' = Null
    /\ UNCHANGED <<project_dir, recording, paused, expect_anchor_click, pending_action,
                   self_anchor_click_xy, _last_move_xy, otherVars>>

\* on_rename_flow(item): the text t[1] is typed, t[2] is t[1].strip();
\* refused for an empty, unchanged or existing id; otherwise id and title
\* are replaced and the renamed flow is re-selected
on_rename_flow ==
    \E idx \in 1..Len(_flows(data)),
       t \in {<<"step1", "step1">>, <<" step3 ", "step3">>, <<" ", "">>} :
        LET old_id == S(PyStr(Get(_flows(data)[idx], "id")))
            new_id == S(t[2])
        IN /\ Truthy(new_id)
           /\ new_id # old_id
           /\ editor_get_flow(data, new_id) = 0
           /\ editor_get_flow(data, old_id) # 0
           /\ data' = SetFlowKey(SetFlowKey(data, editor_get_flow(data, old_id), "id", new_id),
                                 editor_get_flow(data, old_id), "title", new_id)
           /\ current_flow_id' = new_id
           /\ self_anchor_click_xy' = Null
           /\ expect_anchor_click' = FALSE
           /\ UNCHANGED <<project_dir, recording, paused, pending_action, _last_move_xy,
                          otherVars>>

EdNext ==
    \/ on_choose_project
    \/ on_flow_selected
    \/ on_capture_anchor
    \/ _do_capture_anchor_after_f9
    \/ on_set_anchor_click
    \/ _do_set_anchor_basepoint_after_f9
    \/ toggle_pause
    \/ on_record
    \/ _on_f10_gui
    \/ _on_move_gui
    \/ _on_click_gui

SpecEditor == EdInit /\ [][EdNext]_vars

\* the steps table of the editor: anchor, basepoint, recorded clicks and the
\* deletion of steps
SpecSteps ==
    EdInit /\ [][\/ on_choose_project
                 \/ on_capture_anchor
                 \/ _do_capture_anchor_after_f9
                 \/ on_set_anchor_click
                 \/ _do_set_anchor_basepoint_after_f9
                 \/ _on_move_gui
                 \/ _on_click_gui
                 \/ on_del_step]_vars

\* the flow list of the editor: the flow operations and the anchor capture
SpecFlows ==
    EdInit /\ [][\/ on_choose_project
                 \/ on_flow_selected
                 \/ on_add_flow
                 \/ on_del_flow
                 \/ on_rename_flow
                 \/ on_capture_anchor
                 \/ _do_capture_anchor_after_f9]_vars

\* ---------------------------------------------------------------------
\* The simple click recorder and replayer (tools/simple_click_recorder.py,
\* tools/simple_click_replayer.py)
\* ---------------------------------------------------------------------

\* on_click(x, y, button, pressed) on the mouse listener thread: the test of
\* paused, then log(): the click record is written unless the file is closed
on_click ==
    /\ \/ /\ listening
          /\ mouse_cb[1] = "none"
          /\ Len(f_lines) < MaxLog
          /\ \E pt \in {<<4, 5>>}, btn \in {"right", "x1"}, pressed \in BOOLEAN :
                mouse_cb' = IF rec_paused THEN mouse_cb
                            ELSE <<"click", pt[1], pt[2], btn, pressed>>
          /\ UNCHANGED f_lines
       \/ /\ mouse_cb[1] = "click"
          /\ f_lines' = IF f_closed THEN f_lines ELSE Append(f_lines, mouse_cb)
          /\ mouse_cb' = <<"none", 0, 0, "", FALSE>>
    /\ UNCHANGED <<rec_paused, rec_stopped, f_closed, kb_cb, listening, main_pc,
                   planVars, genVars, runVars, edVars>>

\* on_press(key) on the keyboard listener thread: F9 flips paused, F10 sets
\* stopped; then log() writes the state record (a closed file raises, which
\* is swallowed); after F10 the listener stops (return False)
on_press ==
    /\ \/ /\ listening
          /\ kb_cb = "idle"
          /\ Len(f_lines) < MaxLog
          /\ \E key \in {"f9", "f10"} :
                /\ kb_cb' = key
                /\ rec_paused' = IF key = "f9" THEN ~rec_paused ELSE rec_paused
                /\ rec_stopped' = IF key = "f10" THEN TRUE ELSE rec_stopped
          /\ UNCHANGED f_lines
       \/ /\ kb_cb = "f9"
          /\ f_lines' = IF f_closed THEN f_lines
                        ELSE Append(f_lines, <<"state", 0, 0, "paused", rec_paused>>)
          /\ kb_cb' = "idle"
          /\ UNCHANGED <<rec_paused, rec_stopped>>
       \/ /\ kb_cb = "f10"
          /\ f_lines' = IF f_closed THEN f_lines
                        ELSE Append(f_lines, <<"state", 0, 0, "stopped", TRUE>>)
          /\ kb_cb' = IF f_closed THEN "idle" ELSE "stopped"
          /\ UNCHANGED <<rec_paused, rec_stopped>>
    /\ UNCHANGED <<f_closed, mouse_cb, listening, main_pc, planVars, genVars, runVars, edVars>>

\* the main thread: "while not stopped" ends, the with block stops both
\* listeners (no new callbacks start), then ml.stop() and f.close()
rec_main ==
    /\ \/ /\ main_pc = "loop"
          /\ rec_stopped
          /\ main_pc' = "exited"
          /\ listening' = FALSE
          /\ UNCHANGED f_closed
       \/ /\ main_pc = "exited"
          /\ main_pc' = "closed"
          /\ f_closed' = TRUE
          /\ UNCHANGED listening
    /\ UNCHANGED <<rec_paused, rec_stopped, f_lines, mouse_cb, kb_cb,
                   planVars, genVars, runVars, edVars>>

\* simple_click_replayer.main(): the pyautogui.click calls for a log, one for
\* every record of type "click" (with --only-press the pressed ones only);
\* the button is "right" / "middle" when the name contains it, else "left"
RECURSIVE replay(_, _)
replay(lines, only_press) ==
    IF lines = <<>> THEN <<>>
    ELSE LET obj == Head(lines)
             button == CASE obj[4] \in {"right", "Button.right"} -> "right"
                         [] obj[4] \in {"middle", "Button.middle"} -> "middle"
                         [] OTHER -> "left"
         IN (IF obj[1] = "click" /\ ~(only_press /\ ~obj[5])
             THEN <<<<obj[2], obj[3], button>>>>
             ELSE <<>>) \o replay(Tail(lines), only_press)

\* main() up to "with mouse.Listener(...) as ml, keyboard.Listener(...) as kl":
\* the meta record is written and both listeners run
RecInit ==
    /\ rec_paused = FALSE
    /\ rec_stopped = FALSE
    /\ f_lines = <<<<"meta", 0, 0, "out", FALSE>>>>
    /\ f_closed = FALSE
    /\ mouse_cb = <<"none", 0, 0, "", FALSE>>
    /\ kb_cb = "idle"
    /\ listening = TRUE
    /\ main_pc = "loop"
    /\ flow_yaml = Null
    /\ GenIdle
    /\ RunIdle
    /\ PlanIdle
    /\ EdConstructed

SpecRecorder == RecInit /\ [][on_click \/ on_press \/ rec_main]_vars

Init == PlanInit \/ GenInit \/ EdInit

Next == PlanNext \/ GenNext \/ CallGenerateMultiple \/ EdNext

Spec == Init /\ [][Next]_vars

Called == op # "init"

PlanOk == Called /\ plan.status = "ok"

ValidInputs == size > 0 /\ screen_w > 0 /\ screen_h > 0

(***************************************************************************)
(* Claims about preview_crop_plan, checked under SpecPlan.                 *)
(***************************************************************************)
centre_x == click_x + dx

centre_y == click_y + dy

\* C1: for size>0, bound_w>0, bound_h>0 and any click/dx/dy the returned plan
\* satisfies pad_left + (right-left) + pad_right = size and
\* pad_top + (bottom-top) + pad_bottom = size.
C1_ExactSize ==
    (Called /\ ValidInputs) =>
        /\ plan.status = "ok"
        /\ plan.pad_left + (plan.right - plan.left) + plan.pad_right = size
        /\ plan.pad_top + (plan.bottom - plan.top) + plan.pad_bottom = size

\* C2: for size>0, bound_w>0, bound_h>0 the crop rectangle is never empty:
\* right-left >= 1 and bottom-top >= 1, also for centres outside the bounds.
C2_NonEmptyCrop ==
    (Called /\ ValidInputs) =>
        /\ plan.status = "ok"
        /\ crop_w(plan) >= 1
        /\ crop_h(plan) >= 1

InInterior ==
    /\ dx = 0
    /\ dy = 0
    /\ size \div 2 <= click_x
    /\ click_x < screen_w - size \div 2
    /\ size \div 2 <= click_y
    /\ click_y < screen_h - size \div 2

\* C3: with dx = dy = 0 and half <= click_x < bound_w-half,
\* half <= click_y < bound_h-half, all four paddings are 0 and the crop is
\* exactly size x size.
C3_InteriorNoPadding ==
    (PlanOk /\ InInterior) =>
        /\ plan.pad_left = 0
        /\ plan.pad_top = 0
        /\ plan.pad_right = 0
        /\ plan.pad_bottom = 0
        /\ crop_w(plan) = size
        /\ crop_h(plan) = size

\* an odd size with the click on the last interior column and row
C3_Witness ==
    /\ PlanOk
    /\ InInterior
    /\ size = 3
    /\ click_x = screen_w - size \div 2 - 1
    /\ click_y = screen_h - size \div 2 - 1

CentreInside ==
    /\ 0 <= centre_x
    /\ centre_x < screen_w
    /\ 0 <= centre_y
    /\ centre_y < screen_h

\* C4: when the centre (click+dx, click+dy) lies inside the bounds, the centre
\* pixel lands at (size//2, size//2) of the cropped and padded image:
\* pad_left + (cx-left) = size//2 and pad_top + (cy-top) = size//2.
C4_CentreAtHalf ==
    (PlanOk /\ CentreInside) =>
        /\ plan.pad_left + (centre_x - plan.left) = size \div 2
        /\ plan.pad_top + (centre_y - plan.top) = size \div 2

\* a shifted centre on an edge: padding on the left and on the bottom
C4_Witness ==
    /\ PlanOk
    /\ CentreInside
    /\ dx # 0
    /\ plan.pad_left > 0
    /\ plan.pad_bottom > 0

PadOnlyAtBound ==
    /\ plan.pad_left > 0 => plan.left = 0
    /\ plan.pad_top > 0 => plan.top = 0
    /\ plan.pad_right > 0 => plan.right = screen_w
    /\ plan.pad_bottom > 0 => plan.bottom = screen_h

BoundsLargerThanSize == screen_w > size /\ screen_h > size

TopLeftClick == dx = 0 /\ dy = 0 /\ click_x = 0 /\ click_y = 0

BottomRightClick ==
    dx = 0 /\ dy = 0 /\ click_x = screen_w - 1 /\ click_y = screen_h - 1

TopLeftPlan ==
    /\ plan.pad_left > 0
    /\ plan.pad_top > 0
    /\ plan.pad_right = 0
    /\ plan.pad_bottom = 0
    /\ plan.left = 0
    /\ plan.top = 0

BottomRightPlan ==
    /\ plan.pad_right > 0
    /\ plan.pad_bottom > 0
    /\ plan.pad_left = 0
    /\ plan.pad_top = 0
    /\ plan.right = screen_w
    /\ plan.bottom = screen_h

\* C5 as stated: padding only where the crop edge is on the bound, and for
\* bounds larger than size a click at (0,0) pads left and top only, a click
\* at (bound_w-1, bound_h-1) pads right and bottom only.
C5_Original ==
    PlanOk =>
        /\ PadOnlyAtBound
        /\ (BoundsLargerThanSize /\ TopLeftClick) => TopLeftPlan
        /\ (BoundsLargerThanSize /\ BottomRightClick) => BottomRightPlan

\* C5 amended: padding only where the crop edge is on the bound; for bounds
\* larger than size a click at (0,0) pads left and top only when size >= 2,
\* and a click at (bound_w-1, bound_h-1) pads right and bottom only when
\* size >= 3.
C5_PaddingSides ==
    PlanOk =>
        /\ PadOnlyAtBound
        /\ (BoundsLargerThanSize /\ TopLeftClick /\ size >= 2) => TopLeftPlan
        /\ (BoundsLargerThanSize /\ BottomRightClick /\ size >= 3) => BottomRightPlan

\* the bottom-right corner of bounds larger than the size, padded right/bottom
C5_Witness ==
    /\ PlanOk
    /\ BoundsLargerThanSize
    /\ BottomRightClick
    /\ size >= 3
    /\ plan.pad_right > 0
    /\ plan.right = screen_w

OtherInputsFixed ==
    UNCHANGED <<click_x, click_y, screen_w, screen_h, size>>

\* C6: with the other inputs fixed, dx' <= dx implies pad_left does not
\* decrease and pad_right does not increase; dy' <= dy implies the same for
\* pad_top and pad_bottom.
C6_ShiftMonotone ==
    [][(PlanOk /\ PlanOk' /\ OtherInputsFixed) =>
          /\ (dx' <= dx) =>
                /\ plan'.pad_left >= plan.pad_left
                /\ plan'.pad_right <= plan.pad_right
          /\ (dy' <= dy) =>
                /\ plan'.pad_top >= plan.pad_top
                /\ plan'.pad_bottom <= plan.pad_bottom]_vars

\* a call shifted left whose left padding exceeds that of the unshifted call
C6_Witness ==
    /\ PlanOk
    /\ op = "shift"
    /\ dx < 0
    /\ plan.pad_left > pad_lo(click_x - half_of(size))

\* C7: the call fails with the invalid-argument error exactly when size <= 0,
\* bound_w <= 0 or bound_h <= 0, and returns a plan for every other input.
C7_ArgErrors ==
    Called =>
        /\ (size <= 0 \/ screen_w <= 0 \/ screen_h <= 0) <=> plan.status = "ValueError"
        /\ ValidInputs <=> plan.status = "ok"

\* a positive size with an empty bound is refused
C7_Witness ==
    /\ Called
    /\ size > 0
    /\ screen_w > 0
    /\ screen_h = 0
    /\ plan.status = "ValueError"

(***************************************************************************)
(* Claims about the generators and the scripts they emit, checked under    *)
(* SpecGen.                                                                *)
(***************************************************************************)
Generated == req.gen # "none"

ReqFlowIndex == first_match(Get(flow_yaml, "flows")[2], req.flow_id, 1)

ReqFlowFound == Generated /\ ReqFlowIndex # 0

ReqFlow == Get(flow_yaml, "flows")[2][ReqFlowIndex]

ReqSteps == Get(ReqFlow, "steps")[2]

HasIntOffset(st) ==
    /\ IsDict(st)
    /\ IsDict(Get(st, "offset"))
    /\ Get(Get(st, "offset"), "x")[1] = "int"
    /\ Get(Get(st, "offset"), "y")[1] = "int"

\* C8: every click the script performs for a click step lands exactly on
\* (bbox.x + click_in_image.x + offset.x, bbox.y + click_in_image.y + offset.y)
\* for the bbox located at run time, with no clamping.
C8_ClickPoint ==
    Runnable =>
        \A k \in DOMAIN performed :
            (performed[k].op = "click" /\ HasIntOffset(ReqSteps[performed[k].step])) =>
                LET p == performed[k]
                    off == Get(ReqSteps[p.step], "offset")
                    cii == Get(Get(ReqFlow, "anchor"), "click_in_image")
                IN /\ p.x = box.x + Get(cii, "x")[2] + Get(off, "x")[2]
                   /\ p.y = box.y + Get(cii, "y")[2] + Get(off, "y")[2]

\* the example of the claim: click_in_image (5,7), bbox (100,200,50,50),
\* offset (3,-2) clicked at (108,205)
C8_Witness ==
    /\ Runnable
    /\ box = [x |-> 100, y |-> 200, w |-> 50, h |-> 50]
    /\ Get(Get(ReqFlow, "anchor"), "click_in_image") = M([x |-> I(5), y |-> I(7)])
    /\ \E k \in DOMAIN performed :
          /\ performed[k].op = "click"
          /\ Get(ReqSteps[performed[k].step], "offset") = M([x |-> I(3), y |-> I(-2)])
          /\ performed[k].x = 108
          /\ performed[k].y = 205

\* the statements that are the compiled action of a step (not its comment,
\* not its post-step delay)
IsActionStmt(stmt) ==
    \/ stmt.op \in {"click", "write", "hotkey"}
    \/ stmt.op = "sleep" /\ stmt.role = "wait"

ActionStmts(body) == SelectSeq(body, IsActionStmt)

\* the statement a step of the given action compiles to
ExpectedOp(st) ==
    IF ~IsDict(st) THEN "none"
    ELSE CASE Get(st, "action") = S("click") -> "click"
           [] Get(st, "action") = S("type") -> "write"
           [] Get(st, "action") = S("hotkey") -> "hotkey"
           [] Get(st, "action") = S("wait") -> "sleep"
           [] OTHER -> "none"

\* C9: for every flow that compiles successfully the emitted action sequence
\* has exactly one action per input step, the i-th action being the
\* compilation of the i-th step.
C9_OrderPreserving ==
    (Generated /\ result.status = "ok") =>
        LET acts == ActionStmts(result.body) IN
        /\ Len(acts) = Len(ReqSteps)
        /\ \A i \in DOMAIN acts :
              /\ acts[i].step = i
              /\ acts[i].op = ExpectedOp(ReqSteps[i])

BadAction(st) == IsDict(st) /\ Get(st, "action") \notin SupportedActions

\* C10: compiling a flow with a step whose action is absent or not one of
\* click/type/hotkey/wait fails, and the failure reported for that step is
\* the unsupported-action error; no script is produced for such a flow.
C10_UnsupportedActionFails ==
    (ReqFlowFound /\ ~req.dry_run /\ \E i \in DOMAIN ReqSteps : BadAction(ReqSteps[i])) =>
        /\ result.status = "error"
        /\ \A i \in DOMAIN ReqSteps :
              (BadAction(ReqSteps[i]) /\ result.step = i) => result.kind = "unsupported_action"

(***************************************************************************)
(* Anchor, atomicity and per-step validation claims.                       *)
(***************************************************************************)
\* the flow has no usable anchor: the key is missing, null or not a mapping
AnchorAbsent(flow) == ~IsDict(Get(flow, "anchor"))

\* the document-level part of the tools generator accepts the document
VersionAccepted == PyInt(Or(Get(flow_yaml, "version"), I(0))) = Ok(0)

InvalidStep(st) == ~IsDict(st) \/ BadAction(st)

\* C11: compiling a flow that is found but has no usable anchor fails with
\* the error that names the anchor, raised before the steps (step index 0),
\* whatever the steps of the flow are; for the tools generator this is once
\* the document version has been accepted.
C11_AnchorErrorFirst ==
    (ReqFlowFound /\ AnchorAbsent(ReqFlow) /\ (req.gen = "generate" => VersionAccepted)) =>
        /\ result.status = "error"
        /\ result.field = "anchor"
        /\ result.step = 0

C11_Witness ==
    /\ ReqFlowFound
    /\ req.gen = "generate_script"
    /\ AnchorAbsent(ReqFlow)
    /\ \E i \in DOMAIN ReqSteps : InvalidStep(ReqSteps[i])
    /\ result = ErrAt("missing_field", 0, "anchor")

\* the flows of the document, and the position of the first one with an id
DocFlows == Get(flow_yaml, "flows")[2]

FlowIndex(fid) == first_match(DocFlows, fid, 1)

\* C12: a compile that fails returns no script or listing and leaves the
\* output target unwritten, for a single flow and for a list of flows, also
\* when the failure is at the last step or the last flow; whatever is
\* written comes from a compile that raised no error.
C12_Atomic ==
    /\ result.status = "error" => (written = "nothing" /\ DOMAIN result = DOMAIN Err("", 0))
    /\ written # "nothing" => result.status \in {"ok", "dry"}

\* generate_script fails at the last step of the second flow
C12_WitnessLastStep ==
    /\ req.gen = "generate_script"
    /\ FlowIndex(req.flow_id) = 2
    /\ result.status = "error"
    /\ result.step = Len(ReqSteps)
    /\ result.step > 1
    /\ written = "nothing"

\* generate_multiple fails at the last flow of the list after a first flow
\* that compiles
C12_Witness ==
    /\ req.gen = "generate_multiple"
    /\ Len(req.flow_ids) = 2
    /\ generate(flow_yaml, req.flow_ids[1]).status = "ok"
    /\ result.status = "error"
    /\ written = "nothing"

\* a step the compilers know how to compile
IsAction(st) == IsDict(st) /\ Get(st, "action") \in SupportedActions

\* meta.default_delay_s of the document, in hundredths of a second
DefaultDelay == PyFloat(Get(Get(flow_yaml, "meta"), "default_delay_s")).v

\* the delay a step asks for, in hundredths of a second
StepDelay(st) ==
    IF Get(st, "delay_s") # Null THEN PyFloat(Get(st, "delay_s")).v ELSE DefaultDelay

\* C13: in a compiled script every click, type, hotkey and wait step is
\* followed by a delay of the step's own delay_s, or of the document's
\* default_delay_s when the step has none.
C13_PostDelay ==
    (Generated /\ result.status = "ok") =>
        \A i \in DOMAIN ReqSteps :
            IsAction(ReqSteps[i]) =>
                \E j \in DOMAIN result.body :
                    result.body[j] = SleepStmt(i, StepDelay(ReqSteps[i]), "delay")

StepsOfKind(pred(_)) == {i \in DOMAIN ReqSteps : pred(ReqSteps[i])}

\* a hotkey step whose keys are an empty list or absent
EmptyHotkey(st) ==
    /\ IsDict(st)
    /\ Get(st, "action") = S("hotkey")
    /\ ~Truthy(Get(st, "keys"))

\* C14: compiling a flow with a hotkey step that has no keys fails, the
\* error raised for that step is the one for a bad or missing value, and
\* no compiled script holds a hotkey statement with zero keys.
C14_EmptyHotkeyRejected ==
    /\ (ReqFlowFound /\ ~req.dry_run /\ StepsOfKind(EmptyHotkey) # {}) =>
          /\ result.status = "error"
          /\ result.step \in StepsOfKind(EmptyHotkey) =>
                result.kind \in {"value_error", "missing_field"}
    /\ (Generated /\ result.status = "ok") =>
          \A j \in DOMAIN result.body :
              result.body[j].op = "hotkey" => Len(result.body[j].keys) > 0

\* a wait step with a negative number of seconds
NegativeWait(st) ==
    /\ IsDict(st)
    /\ Get(st, "action") = S("wait")
    /\ Get(st, "seconds") # Null
    /\ PyFloat(Get(st, "seconds")).v < 0

\* C15: compiling a flow with a wait step of negative seconds fails, and
\* every wait statement of a compiled script sleeps a time that is not
\* negative and is the seconds value of its step.
C15_WaitSeconds ==
    /\ (ReqFlowFound /\ ~req.dry_run /\ StepsOfKind(NegativeWait) # {}) =>
          result.status = "error"
    /\ (Generated /\ result.status = "ok") =>
          \A j \in DOMAIN result.body :
              (result.body[j].op = "sleep" /\ result.body[j].role = "wait") =>
                  /\ result.body[j].secs >= 0
                  /\ result.body[j].secs = PyFloat(Get(ReqSteps[result.body[j].step], "seconds")).v

\* a click step with a clicks value other than 1 and 2
OddClicks(st) ==
    /\ IsDict(st)
    /\ Get(st, "action") = S("click")
    /\ Has(st, "clicks")
    /\ Get(st, "clicks") \notin {I(1), I(2)}

\* C16: compiling a flow with a click step whose clicks is present and not
\* 1 or 2 fails, with the out-of-range error when the failure is at that
\* step, and every click statement of a compiled script has clicks 1 or 2.
C16_ClicksRange ==
    /\ (ReqFlowFound /\ ~req.dry_run /\ StepsOfKind(OddClicks) # {}) =>
          /\ result.status = "error"
          /\ result.step \in StepsOfKind(OddClicks) => result.kind = "value_error"
    /\ (Generated /\ result.status = "ok") =>
          \A j \in DOMAIN result.body :
              result.body[j].op = "click" => result.body[j].clicks \in {1, 2}

\* a click step without offset, offset.x or offset.y, or a type step without text
MissingRequired(st) ==
    /\ IsDict(st)
    /\ \/ /\ Get(st, "action") = S("click")
          /\ \/ ~Has(st, "offset")
             \/ ~Has(Get(st, "offset"), "x")
             \/ ~Has(Get(st, "offset"), "y")
       \/ /\ Get(st, "action") = S("type")
          /\ ~Has(st, "text")

\* C17: compiling a flow with a click step that lacks offset, offset.x or
\* offset.y, or a type step that lacks text, fails, with the missing-field
\* error when the failure is at that step; no click or write statement is
\* compiled for such a step.
C17_NoDefaultSubstitution ==
    /\ (ReqFlowFound /\ ~req.dry_run /\ StepsOfKind(MissingRequired) # {}) =>
          /\ result.status = "error"
          /\ result.step \in StepsOfKind(MissingRequired) => result.kind = "missing_field"
    /\ (Generated /\ result.status = "ok") =>
          \A j \in DOMAIN result.body :
              result.body[j].op \in {"click", "write"} =>
                  ~MissingRequired(ReqSteps[result.body[j].step])

\* C18: compiling a document whose version is present and is not 0 fails
\* with the unsupported-version error and writes nothing.
C18_VersionZero ==
    (Generated /\ ~req.dry_run /\ Has(flow_yaml, "version") /\ Get(flow_yaml, "version") # I(0)) =>
        /\ result = Err("unsupported_version", 0)
        /\ written = "nothing"

\* the positions of the flows of the document that have the id
Matching(fid) == {i \in DOMAIN DocFlows : IsDict(DocFlows[i]) /\ Get(DocFlows[i], "id") = S(fid)}

EarliestMatch(fid) == CHOOSE i \in Matching(fid) : \A j \in Matching(fid) : i <= j

\* the document with the flow at position i as its only flow
OnlyFlow(i) ==
    M([k \in DOMAIN flow_yaml[2] |->
          IF k = "flows" THEN L(<<DocFlows[i]>>) ELSE flow_yaml[2][k]])

\* what the requested generator returns for a document
CompilesOf(d) ==
    IF req.gen = "generate_script"
    THEN {generate_script(d, req.flow_id, uc, req.dry_run, req.anchor_exists) : uc \in BOOLEAN}
    ELSE {generate(d, req.flow_id)}

\* C19: the flow a generator works on is the earliest flow of the document
\* whose id is the requested one (the outcome is the outcome for a document
\* holding that flow alone), and the flow-not-found error is raised exactly
\* when no flow of the document has the id.
C19_FirstMatch ==
    (Generated /\ (req.gen = "generate" => VersionAccepted)) =>
        /\ (result.status = "error" /\ result.kind = "flow_not_found")
              <=> Matching(req.flow_id) = {}
        /\ Matching(req.flow_id) # {} =>
              result \in CompilesOf(OnlyFlow(EarliestMatch(req.flow_id)))

C19_Witness ==
    /\ Generated
    /\ Cardinality(Matching(req.flow_id)) = 2
    /\ result.status = "ok"
    /\ result \in CompilesOf(OnlyFlow(1))
    /\ result \notin CompilesOf(OnlyFlow(2))

C19_WitnessNotFound ==
    /\ Generated
    /\ Matching(req.flow_id) = {}
    /\ result = Err("flow_not_found", 0)

(***************************************************************************)
(* Multi-flow composition claims.                                          *)
(***************************************************************************)
Composed == req.gen = "generate_multiple" /\ result.status = "ok"

\* the block of the k-th requested flow: from its "# --- flow" line to the
\* statement before the next one
MarkPos(k) ==
    CHOOSE j \in DOMAIN result.body : result.body[j].op = "flow" /\ result.body[j].k = k

BlockEnd(k) == IF k = Len(req.flow_ids) THEN Len(result.body) ELSE MarkPos(k + 1) - 1

ShowDesktopIn(lo, hi) == {j \in lo..hi : result.body[j].op = "show_desktop"}

\* the flow's own show_desktop field is true
OwnShowDesktop(fid) == Get(DocFlows[EarliestMatch(fid)], "show_desktop") = B(TRUE)

\* C20: in a composed script the block of a flow holds the reveal-desktop
\* call if and only if that flow's own show_desktop is true, the call is
\* the first statement of the block and the anchor is located right after
\* it; global.show_desktop and the other flows do not matter. The same
\* holds for the script of a single flow.
C20_ShowDesktopPerFlow ==
    /\ Composed =>
          \A k \in DOMAIN req.flow_ids :
              /\ ShowDesktopIn(MarkPos(k), BlockEnd(k)) =
                    (IF OwnShowDesktop(req.flow_ids[k]) THEN {MarkPos(k) + 1} ELSE {})
              /\ result.body[MarkPos(k) + (IF OwnShowDesktop(req.flow_ids[k]) THEN 2 ELSE 1)].op
                    = "locate"
    /\ (req.gen = "generate" /\ result.status = "ok") =>
          /\ ShowDesktopIn(1, Len(result.body)) =
                (IF OwnShowDesktop(req.flow_id) THEN {2} ELSE {})
          /\ result.body[IF OwnShowDesktop(req.flow_id) THEN 3 ELSE 2].op = "locate"

C20_Witness ==
    /\ Composed
    /\ req.flow_ids = <<"f1", "f2">>
    /\ Get(Get(flow_yaml, "global"), "show_desktop") = B(TRUE)
    /\ ~OwnShowDesktop("f1")
    /\ OwnShowDesktop("f2")
    /\ ShowDesktopIn(MarkPos(1), BlockEnd(1)) = {}
    /\ ShowDesktopIn(MarkPos(2), BlockEnd(2)) = {MarkPos(2) + 1}

\* the positions of the requested list whose id no flow of the document has
MissingIn(flow_ids) == {k \in DOMAIN flow_ids : Matching(flow_ids[k]) = {}}

FirstMissing(flow_ids) == CHOOSE k \in MissingIn(flow_ids) : \A j \in MissingIn(flow_ids) : k <= j

\* every flow requested before position k compiles on its own
EarlierCompile(flow_ids, k) ==
    \A j \in 1..(k - 1) : generate(flow_yaml, flow_ids[j]).status = "ok"

ComposeAsked == req.gen = "generate_multiple" /\ VersionAccepted

\* C21 as stated: a composition whose list holds an id that no flow of the
\* document has fails with the flow-not-found error and writes nothing,
\* wherever the id is in the list.
C21_Original ==
    (ComposeAsked /\ MissingIn(req.flow_ids) # {}) =>
        /\ result = Err("flow_not_found", 0)
        /\ written = "nothing"

\* C21: a composition whose list holds an id that no flow of the document
\* has fails and writes nothing, wherever the id is in the list; the error
\* is the flow-not-found error when the flows requested before the first
\* missing id compile, and the flow-not-found error is raised only for a
\* list that holds a missing id.
C21_FirstMissingFails ==
    ComposeAsked =>
        /\ MissingIn(req.flow_ids) # {} =>
              /\ result.status = "error"
              /\ written = "nothing"
              /\ EarlierCompile(req.flow_ids, FirstMissing(req.flow_ids)) =>
                    result = Err("flow_not_found", 0)
        /\ (result.status = "error" /\ result.kind = "flow_not_found") =>
              MissingIn(req.flow_ids) # {}

C21_Witness ==
    /\ ComposeAsked
    /\ Len(req.flow_ids) >= 2
    /\ MissingIn(req.flow_ids) # {}
    /\ FirstMissing(req.flow_ids) = Len(req.flow_ids)
    /\ EarlierCompile(req.flow_ids, Len(req.flow_ids))
    /\ result = Err("flow_not_found", 0)
    /\ written = "nothing"

\* a script written by one of the tools generators
ToolsScript == req.gen \in {"generate", "generate_multiple"} /\ result.status = "ok"

\* the screen size global._editor records, when it records both numbers
RecordedScreen ==
    LET ed == Get(Get(flow_yaml, "global"), "_editor") IN
    IF IsDict(ed) /\ Has(ed, "capture_screen_w") /\ Has(ed, "capture_screen_h")
    THEN <<Get(ed, "capture_screen_w")[2], Get(ed, "capture_screen_h")[2]>>
    ELSE NoScreen

ReqList == IF req.gen = "generate_multiple" THEN req.flow_ids ELSE <<req.flow_id>>

\* the number of locate calls that happened up to position p of the log
RECURSIVE LocatesUpTo(_)
LocatesUpTo(p) ==
    IF p = 0 THEN 0
    ELSE LocatesUpTo(p - 1) + (IF performed[p].op = "locate" THEN 1 ELSE 0)

\* the position in the log of the locate call most recently made before p
RECURSIVE LocateBefore(_)
LocateBefore(p) ==
    IF p = 0 THEN 0
    ELSE IF performed[p].op = "locate" THEN p
    ELSE LocateBefore(p - 1)

\* the flow of the document behind the k-th requested id
ListFlow(k) == DocFlows[EarliestMatch(ReqList[k])]

\* C23: in the run of a compiled script every locate call is the one of the
\* next flow of the requested list, in list order, with that flow's
\* click_in_image; every step action runs after the locate call of its
\* flow, and every click lands on the top-left corner that call found plus
\* the flow's click_in_image plus the step's offset, whatever was found
\* for the flows before it.
C23_LocateAtRunTime ==
    Runnable =>
        \A p \in DOMAIN performed :
            LET e == performed[p]
                k == LocatesUpTo(p)
            IN
            /\ e.op = "locate" =>
                  /\ k <= Len(ReqList)
                  /\ e.cix = Get(Get(Get(ListFlow(k), "anchor"), "click_in_image"), "x")[2]
                  /\ e.ciy = Get(Get(Get(ListFlow(k), "anchor"), "click_in_image"), "y")[2]
                  /\ <<e.x, e.y>> \in {<<b.x, b.y>> : b \in Boxes}
            /\ e.step > 0 => k >= 1
            /\ (e.op = "click" /\ HasIntOffset(Get(ListFlow(k), "steps")[2][e.step])) =>
                  LET loc == performed[LocateBefore(p)]
                      off == Get(Get(ListFlow(k), "steps")[2][e.step], "offset")
                  IN /\ e.x = loc.x + loc.cix + Get(off, "x")[2]
                     /\ e.y = loc.y + loc.ciy + Get(off, "y")[2]

\* two flows located at different places, each click from its own locate
C23_Witness ==
    /\ Composed
    /\ rstatus = "done"
    /\ req.flow_ids = <<"f1", "f2">>
    /\ \E p, q \in DOMAIN performed :
          /\ p < q
          /\ performed[p].op = "locate"
          /\ performed[q].op = "locate"
          /\ performed[p].x # performed[q].x
          /\ \E c \in (p + 1)..(q - 1) : performed[c].op = "click"
          /\ \E c \in (q + 1)..Len(performed) : performed[c].op = "click"

\* C24: compiling a flow that has a well-formed anchor whose image file is
\* absent fails with the anchor-image-not-found error, raised before the
\* steps, and writes nothing.
C24_AnchorImageChecked ==
    (ReqFlowFound /\ ~req.dry_run /\ ~req.anchor_exists
       /\ gs_anchor(ReqFlow).status = "ok"
       /\ (req.gen = "generate" => VersionAccepted)) =>
        /\ result = Err("anchor_image_not_found", 0)
        /\ written = "nothing"

DryRun == req.gen = "generate_script" /\ req.dry_run

\* C25: a dry run of a flow that is found, has a well-formed anchor and
\* whose steps are mappings succeeds whatever the steps' actions and
\* payloads are and whether or not the anchor image file exists; what it
\* returns is the flow id, the anchor's image and click_in_image and the
\* action field of every step as the document holds them; it goes to
\* stdout and the --out file is never written.
C25_DryRunListing ==
    DryRun =>
        /\ written # "file"
        /\ (ReqFlowFound /\ gs_anchor(ReqFlow).status = "ok"
              /\ \A i \in DOMAIN ReqSteps : IsDict(ReqSteps[i])) =>
              /\ result.status = "dry"
              /\ written = "stdout"
              /\ result.flow_id = req.flow_id
              /\ S(result.image) = Get(Get(ReqFlow, "anchor"), "image")
              /\ I(result.cix) = Get(Get(Get(ReqFlow, "anchor"), "click_in_image"), "x")
              /\ I(result.ciy) = Get(Get(Get(ReqFlow, "anchor"), "click_in_image"), "y")
              /\ result.actions = [i \in DOMAIN ReqSteps |-> Get(ReqSteps[i], "action")]

C25_Witness ==
    /\ DryRun
    /\ ReqFlowFound
    /\ ~req.anchor_exists
    /\ req.out = "file"
    /\ \E i \in DOMAIN ReqSteps : BadAction(ReqSteps[i])
    /\ \E i \in DOMAIN ReqSteps : MissingRequired(ReqSteps[i])
    /\ result.status = "dry"
    /\ written = "stdout"

\* the pause between characters a type step asks for, in hundredths of a
\* second: its interval_s, or 0.02 s when it has none
StepInterval(st) ==
    IF Has(st, "interval_s") THEN F(PyFloat(Get(st, "interval_s")).v) ELSE F(2)

\* C26: in a compiled script the write statement of a type step passes
\* interval=0.02 when the step has no interval_s and the step's own
\* interval_s when it has one.
C26_TypeInterval ==
    (Generated /\ result.status = "ok") =>
        \A j \in DOMAIN result.body :
            (result.body[j].op = "write" /\ Has(ReqSteps[result.body[j].step], "text")) =>
                result.body[j].interval = StepInterval(ReqSteps[result.body[j].step])

(***************************************************************************)
(* Claims about the editor.                                                *)
(***************************************************************************)
\* the anchor of a flow is a mapping that holds a capture_rect mapping
HasRect(f) == IsDict(Get(f, "anchor")) /\ IsDict(Get(Get(f, "anchor"), "capture_rect"))

RectOf(f) == Get(Get(f, "anchor"), "capture_rect")

ClickInImageOf(f) == Get(Get(f, "anchor"), "click_in_image")

Num(d, k) == Get(d, k)[2]

\* C27: after any sequence of editor operations, every flow anchor that has
\* a capture_rect has 0 <= click_in_image.x < capture_rect.w and
\* 0 <= click_in_image.y < capture_rect.h.
C27_ClickInImageInRect ==
    \A i \in 1..Len(_flows(data)) :
        LET f == _flows(data)[i] IN
        HasRect(f) =>
            /\ 0 <= Num(ClickInImageOf(f), "x")
            /\ Num(ClickInImageOf(f), "x") < Num(RectOf(f), "w")
            /\ 0 <= Num(ClickInImageOf(f), "y")
            /\ Num(ClickInImageOf(f), "y") < Num(RectOf(f), "h")

\* the basepoint of the current flow was set by F9 with the pointer left of
\* and below the captured rectangle
C27_Witness ==
    /\ Truthy(current_flow_id)
    /\ HasRect(CurFlow)
    /\ self_anchor_click_xy # Null
    /\ Num(self_anchor_click_xy, "x") < Num(RectOf(CurFlow), "x")
    /\ Num(self_anchor_click_xy, "y") >= Num(RectOf(CurFlow), "y") + Num(RectOf(CurFlow), "h")
    /\ Has(Get(CurFlow, "anchor"), "basepoint_preview")

\* the steps list of a flow
StepsOf(f) == Or(Get(f, "steps"), L(<<>>))[2]

\* the flow with the current id in a document
FlowIn(d) == _flows(d)[editor_get_flow(d, current_flow_id)]

\* the step taken recorded a click: the current flow has one step more
ClickRecorded ==
    /\ Truthy(current_flow_id)
    /\ Len(StepsOf(FlowIn(data'))) = Len(StepsOf(FlowIn(data))) + 1

\* the click_in_image of the current flow is the one computed when its
\* basepoint was set: no capture has replaced the anchor since
BasepointCurrent ==
    /\ HasRect(CurFlow)
    /\ Has(Get(CurFlow, "anchor"), "basepoint_preview")
    /\ self_anchor_click_xy # Null

\* the clicks a compiled script performs, in order, when locate_anchor finds
\* the anchor with its top-left corner at (bx, by)
RECURSIVE ScriptClicks(_, _, _, _)
ScriptClicks(body, i, bx, by) ==
    IF i = 0 THEN <<>>
    ELSE ScriptClicks(body, i - 1, bx, by)
         \o (IF body[i].op = "click"
             THEN LET loc == body[last_locate(body, i)] IN
                  perform(body[i], anchor_click_xy(bx, by, loc.cix, loc.ciy))
             ELSE <<>>)

\* the clicks of the script that tools generate compiles for the current
\* flow of d, replayed with the anchor found where it was captured
Replayed(d) ==
    LET r == generate(d, current_flow_id[2]) IN
    IF r.status # "ok" THEN <<>>
    ELSE ScriptClicks(r.body, Len(r.body), Num(RectOf(FlowIn(d)), "x"), Num(RectOf(FlowIn(d)), "y"))

RecordedXY(st) == Get(Get(st, "_editor"), "click_xy")

\* C28: record/replay round trip: with the basepoint set at any screen point
\* (inside or outside capture_rect) and a click then recorded at (bx, by),
\* the compiled script, with the anchor located at capture_rect.xy, clicks
\* exactly at (bx, by).
C28_RoundTrip ==
    [][(ClickRecorded /\ BasepointCurrent) =>
          LET n == Len(StepsOf(FlowIn(data')))
              clicks == Replayed(data')
          IN /\ Len(clicks) = n
             /\ XY(clicks[n].x, clicks[n].y) = RecordedXY(StepsOf(FlowIn(data'))[n])]_vars

\* the point a stored click step resolves to when the anchor is found where
\* it was captured: capture_rect.xy + click_in_image + offset
ResolvedXY(f, st) ==
    XY(Num(RectOf(f), "x") + Num(ClickInImageOf(f), "x") + Num(Get(st, "offset"), "x"),
       Num(RectOf(f), "y") + Num(ClickInImageOf(f), "y") + Num(Get(st, "offset"), "y"))

\* C29: after any sequence of editor operations on a flow, every click step
\* stored in the flow still resolves to the point where it was recorded:
\* capture_rect.xy + click_in_image + offset = _editor.click_xy.
C29_StepsResolve ==
    \A i \in 1..Len(_flows(data)) :
        LET f == _flows(data)[i] IN
        HasRect(f) =>
            \A k \in 1..Len(StepsOf(f)) :
                Get(StepsOf(f)[k], "action") = S("click") =>
                    ResolvedXY(f, StepsOf(f)[k]) = RecordedXY(StepsOf(f)[k])

\* the steps lists of all flows, in document order
AllSteps(d) == [i \in 1..Len(_flows(d)) |-> StepsOf(_flows(d)[i])]

\* C30: a mouse event appends a step only when it is a press received while
\* recording is true, paused is false, a flow is selected and its anchor
\* basepoint is set; a release, or a press received while paused or idle,
\* leaves every flow's steps unchanged; an accepted press appends exactly one
\* click step at the end of the current flow's steps.
C30_MousePressAppends ==
    [][(/\ AllSteps(data') # AllSteps(data)
        /\ UNCHANGED <<project_dir, current_flow_id, pending_action, _last_move_xy>>)
       => \A pt \in MousePoints, pressed \in BOOLEAN, ours \in BOOLEAN :
            click_gui(pt, "left", pressed, ours)
            => /\ pressed
               /\ recording
               /\ ~paused
               /\ Truthy(current_flow_id)
               /\ self_anchor_click_xy # Null
               /\ LET i == editor_get_flow(data, current_flow_id)
                       new == StepsOf(_flows(data')[i])
                  IN /\ Len(new) = Len(AllSteps(data)[i]) + 1
                     /\ SubSeq(new, 1, Len(new) - 1) = AllSteps(data)[i]
                     /\ Get(new[Len(new)], "action") = S("click")
                     /\ RecordedXY(new[Len(new)]) = XY(pt[1], pt[2])
                     /\ \A j \in 1..Len(_flows(data)) :
                           j # i => AllSteps(data')[j] = AllSteps(data)[j]]_vars

\* two presses were accepted: the current flow, still being recorded, holds
\* the two click steps
C30_Witness ==
    /\ recording
    /\ ~paused
    /\ Truthy(current_flow_id)
    /\ self_anchor_click_xy # Null
    /\ Len(StepsOf(CurFlow)) = 2
    /\ \A k \in 1..2 : Get(StepsOf(CurFlow)[k], "action") = S("click")

\* an action waits for F9
Pending == pending_action \in {S("capture_anchor"), S("set_anchor_basepoint")}

\* F9 arrived while an action was pending: the pending operation ran
F9Pending == _do_capture_anchor_after_f9 \/ _do_set_anchor_basepoint_after_f9

\* the pending basepoint was set: recording starts, not paused
BasepointSet ==
    /\ pending_action = S("set_anchor_basepoint")
    /\ _do_set_anchor_basepoint_after_f9
    /\ self_anchor_click_xy' # Null
    /\ _last_move_xy # Null
    /\ self_anchor_click_xy' = XY(_last_move_xy[2][1][2], _last_move_xy[2][2][2])
    /\ recording'

\* C31 as stated: with an action pending, F9 runs it, leaves paused as it
\* is and pending_action None; with none pending F9 toggles paused, and only
\* while recording.
C31_Original ==
    [][/\ (Pending /\ F9Pending) => (pending_action' = Null /\ paused' = paused)
       /\ (paused' /\ ~paused) => (~Pending /\ recording)]_vars

\* C31: with an action pending, F9 runs it and leaves pending_action None
\* on every path; paused is left as it is, except that a basepoint that is
\* set starts recording with paused false; paused becomes true only by F9
\* with nothing pending, and only while recording.
C31_PendingFirst ==
    [][/\ (Pending /\ F9Pending)
            => /\ pending_action' = Null
               /\ IF BasepointSet THEN ~paused' ELSE paused' = paused
       /\ (paused' /\ ~paused) => (~Pending /\ recording /\ recording')]_vars

\* F9 ran a capture that was pending while the recording was paused: the
\* anchor is a fresh capture, nothing is pending and paused is still true
C31_Witness ==
    /\ pending_action = Null
    /\ recording
    /\ paused
    /\ Truthy(current_flow_id)
    /\ HasRect(CurFlow)
    /\ ~Has(Get(CurFlow, "anchor"), "basepoint_preview")

\* C32: in every reachable editor state paused implies recording.
C32_PausedImpliesRecording == paused => recording

C32_Witness == paused /\ recording /\ Len(StepsOf(CurFlow)) >= 1

\* C33: in every reachable editor state recording = true implies that a flow
\* is selected, that the flow has an anchor and that the anchor basepoint
\* (anchor_click_xy) is set.
C33_RecordingHasBasepoint ==
    recording =>
        /\ Truthy(current_flow_id)
        /\ editor_get_flow(data, current_flow_id) # 0
        /\ Truthy(Get(CurFlow, "anchor"))
        /\ self_anchor_click_xy # Null

\* the anchor of the flow with the current id in a document
AnchorIn(d) == Get(FlowIn(d), "anchor")

\* C36: an anchor capture that is cancelled (or whose ROI has a width or
\* height <= 5) leaves the document unchanged: the flow's anchor and steps
\* and the global settings, capture_screen_w / capture_screen_h included.
C36_CancelKeepsDocument ==
    [][(/\ pending_action = S("capture_anchor")
        /\ _do_capture_anchor_after_f9
        /\ Truthy(current_flow_id)
        /\ AnchorIn(data') = AnchorIn(data))
       => data' = data]_vars

\* the ids of the flows of a document are pairwise distinct
FlowIdsDistinct(d) ==
    \A i, j \in 1..Len(_flows(d)) :
        i # j => Get(_flows(d)[i], "id") # Get(_flows(d)[j], "id")

\* C35: starting from a document whose flow ids are pairwise distinct, add
\* flow, rename flow, delete flow and the implicit _ensure_flow of the anchor
\* operations keep the flow ids pairwise distinct (an add with an existing id
\* creates no second flow, a rename to an id in use changes nothing).
C35_FlowIdsDistinct == FlowIdsDistinct(data)

\* three flows: the first renamed to step3, step1 added again behind them
C35_Witness ==
    /\ Len(_flows(data)) = 3
    /\ Get(_flows(data)[1], "id") = S("step3")
    /\ Get(_flows(data)[3], "id") = S("step1")
    /\ current_flow_id = S("step1")

\* C34: after any sequence of record-click and delete-step operations the
\* click steps at distinct positions of a flow have distinct preview paths,
\* so a new recording never overwrites the preview of a step still in the flow.
C34_PreviewPathsDistinct ==
    \A i \in 1..Len(_flows(data)) :
        LET st == StepsOf(_flows(data)[i]) IN
        \A j, k \in 1..Len(st) :
            (j # k /\ Has(st[j], "preview") /\ Has(st[k], "preview"))
                => Get(st[j], "preview") # Get(st[k], "preview")

\* the last "paused" state record before line j of the log, or 0
LastPauseBefore(j) ==
    LET m == {i \in 1..(j - 1) : f_lines[i][1] = "state" /\ f_lines[i][4] = "paused"} IN
    IF m = {} THEN 0 ELSE CHOOSE i \in m : \A k \in m : k <= i

\* C37: in the recorder's log no click record stands between a state record
\* with paused = true and the next state record with paused = false, and no
\* record of any kind follows the stopped = true record.
C37_LogRespectsPauseAndStop ==
    /\ \A j \in 1..Len(f_lines) :
          (f_lines[j][1] = "click" /\ LastPauseBefore(j) # 0)
              => ~f_lines[LastPauseBefore(j)][5]
    /\ \A i \in 1..Len(f_lines) :
          f_lines[i] = <<"state", 0, 0, "stopped", TRUE>> => i = Len(f_lines)

\* C38: replaying, with default options, the log of a finished recording
\* performs exactly one click per recorded physical click, in the recorded
\* order, at the recorded coordinates and with the normalised button: the
\* clicks performed are those of the press records, as with --only-press.
C38_ReplayOneClickPerClick ==
    main_pc = "closed" => replay(f_lines, FALSE) = replay(f_lines, TRUE)

\* the primitive actions of an emitted script with the parameters that are
\* compared: click offset / button / clicks, typed text and interval, hotkey
\* keys, wait seconds and post-step delay
Primitives(stmts) ==
    LET IsPrimitive(s) == s.step >= 1 /\ s.op \in {"click", "write", "hotkey", "sleep"}
        prim == SelectSeq(stmts, IsPrimitive)
    IN [i \in 1..Len(prim) |->
           CASE prim[i].op = "click" ->
                    <<"click", prim[i].step, prim[i].ox, prim[i].oy, prim[i].button,
                      prim[i].clicks>>
             [] prim[i].op = "write" -> <<"write", prim[i].step, prim[i].text, prim[i].interval>>
             [] prim[i].op = "hotkey" -> <<"hotkey", prim[i].step, prim[i].keys>>
             [] OTHER -> <<"sleep", prim[i].step, prim[i].secs, prim[i].role>>]

\* version 0 and an explicit delay on every step of the flow
ExplicitDelays(d, flow_id) ==
    /\ Get(d, "version") = I(0)
    /\ find_flow(d, flow_id).status = "ok"
    /\ LET steps == Or(Get(find_flow(d, flow_id).flow, "steps"), L(<<>>)) IN
       /\ IsList(steps)
       /\ \A k \in DOMAIN steps[2] : IsDict(steps[2][k]) /\ Get(steps[2][k], "delay_s") # Null

\* C39: for every document and flow that both generators accept (version 0,
\* anchor present, every step one of the four actions with its required
\* fields and an explicit delay), generate_script and tools generate emit the
\* same ordered sequence of primitive actions with the same parameters.
C39_GeneratorsAgree ==
    (/\ req.gen = "generate_script"
     /\ ~req.dry_run
     /\ result.status = "ok"
     /\ generate(flow_yaml, req.flow_id).status = "ok"
     /\ ExplicitDelays(flow_yaml, req.flow_id))
    => Primitives(result.body) = Primitives(generate(flow_yaml, req.flow_id).body)

====
